---- MODULE Spec2Model ----
(***************************************************************************)
(* Model of the orchestration core of franklin: the Executor               *)
(* (src/executor/executor.py), the ApprovalManager                         *)
(* (src/executor/approval.py) and the approval tiers of the Tool contract  *)
(* (src/tools/base.py).                                                    *)
(*                                                                         *)
(* Python objects live on a heap: a PendingApproval that cleanup_expired   *)
(* deleted from the manager's dict still exists for whoever holds a        *)
(* reference to it.  `approvals` is that heap (id = position), and         *)
(* `pending_store` the key set of ApprovalManager._pending.                *)
(* Optional[...] values are sets of at most one element ({} is None).      *)
(***************************************************************************)
EXTENDS Integers, Sequences, FiniteSets, TLC

\* ------------------------------------------------------------------ bounds
MaxSteps == 2
MaxTime == 25
MaxCalls == 2
MaxApprovals == 2
MaxCost == 52
MaxStepIds == 5

\* ------------------------------------------------------- program constants
DefaultExpiresInHours == 24
CostThresholdAuto == 0
CostThresholdNotify == 50

Users == {"u1", "u2"}
\* the user whose turn owns the plan
PlanOwner == "u1"
Channel == "telegram"
PlanId == "plan1"

\* ApprovalLevel, in declaration order (list(ApprovalLevel))
ApprovalLevel == <<"none", "notify", "confirm", "strict">>
Levels == {"none", "notify", "confirm", "strict"}

LevelIndex(l) == CHOOSE i \in 1..Len(ApprovalLevel) : ApprovalLevel[i] = l

StepStatus == {"pending", "in_progress", "awaiting_approval", "completed", "failed", "skipped"}
ApprovalStatus == {"pending", "approved", "rejected", "expired", "cancelled"}

\* Outcomes of `await tool.execute(...)`: ToolResult(success=True),
\* ToolResult(success=False, error=...), or a raised exception.
Outcomes == {"success", "failure", "raise"}

\* ------------------------------------------------------------ tool registry
\* The registered tool and the tiers its actions declare (FinanceTool).
RegisteredTools == {"finance"}
UnregisteredTool == "crypto"
FinanceActions ==
    [list_accounts |-> "none",
     prepare_tax_documents |-> "notify",
     schedule_payment |-> "confirm",
     submit_tax_return |-> "strict"]
UndeclaredAction == "transfer"
default_approval_level == "none"

get_action(action) ==
    IF action \in DOMAIN FinanceActions THEN {FinanceActions[action]} ELSE {}

MaxLevel(a, b) == IF LevelIndex(b) > LevelIndex(a) THEN b ELSE a

\* Tool.get_approval_level(action, estimated_cost); estimated_cost is a set
\* ({} is None).  `if estimated_cost:` is false for None and for 0.
get_approval_level(action, estimated_cost) ==
    LET tool_action == get_action(action)
        base_level == IF tool_action # {}
                      THEN CHOOSE l \in tool_action : TRUE
                      ELSE default_approval_level
    IN  IF estimated_cost # {} /\ estimated_cost # {0}
        THEN LET c == CHOOSE x \in estimated_cost : TRUE
             IN  IF c > CostThresholdNotify THEN "confirm"
                 ELSE IF c > CostThresholdAuto THEN MaxLevel(base_level, "notify")
                 ELSE base_level
        ELSE base_level

\* ApprovalLevel is a str Enum: `.value` is the string, and `>` on two values
\* is Python's lexicographic string comparison:
\* "confirm" < "none" < "notify" < "strict".
StrRank(s) ==
    CASE s = "confirm" -> 1
      [] s = "none" -> 2
      [] s = "notify" -> 3
      [] s = "strict" -> 4

ValueGreater(a, b) == StrRank(a) > StrRank(b)

\* executor.py:155-160: the tier execute_step enforces for a step
ResolveLevel(step) ==
    LET approval_level == get_approval_level(step.action, {})
    IN  IF ValueGreater(step.approval_level, approval_level)
        THEN step.approval_level
        ELSE approval_level

NeedsApproval_Inverted(level) == level \in {"none", "notify"}

\* executor.py:162
NeedsApproval(level) == level \in {"confirm", "strict"}

\* ------------------------------------------------------------------- state
VARIABLES
    steps,          \* plan.steps: sequence of Step records
    plan_status,    \* plan.status
    approvals,      \* heap of PendingApproval objects (id = position)
    pending_store,  \* keys of ApprovalManager._pending
    user_pending,   \* ApprovalManager._user_pending: user -> sequence of ids
    audit_log,      \* Executor._audit_log
    invoked,        \* history: every tool.execute call made so far
    now,            \* datetime.utcnow(), in hours
    ret,            \* the last call whose result was looked at, and the result
    tasks,          \* the asyncio tasks (turns) in flight on the event loop
    graph           \* the conversation thread of the turn graph: AgentState,
                    \* the node the run is at, and the history of the turn

vars == <<steps, plan_status, approvals, pending_store, user_pending,
          audit_log, invoked, now, ret, tasks, graph>>

\* The Steps a plan can hold: any action of the registered tool (declared or
\* not) at any step-level tier, or a step naming a tool that is not registered.
StepKinds ==
    [tool : RegisteredTools,
     action : DOMAIN FinanceActions \cup {UndeclaredAction},
     approval_level : Levels,
     status : {"pending"},
     parameters : {{}}]
    \cup
    [tool : {UnregisteredTool},
     action : {UndeclaredAction},
     approval_level : {"none"},
     status : {"pending"},
     parameters : {{}}]

\* Step(tool=..., action=..., approval_level=...): a new Step object.  id is
\* the uuid4 given to the object at construction (a number never handed out
\* twice), result and error start as None ({} and "").
NewStep(id, kind) ==
    [id |-> id, tool |-> kind.tool, action |-> kind.action,
     approval_level |-> kind.approval_level, status |-> kind.status,
     parameters |-> kind.parameters, result |-> {}, error |-> ""]

\* The steps of a new plan, one Step per kind, numbered in list order.
PlanSteps(kinds) == [j \in DOMAIN kinds |-> NewStep(j, kinds[j])]

\* What a call returned.  An ExecutionResult fills success, requires_approval,
\* error, response and approval; a manager call fills item (the returned
\* PendingApproval, {} for None), item_status (its status as returned), msg and
\* count; raised is TRUE when the call ended in an uncaught exception; text is
\* the reply passed to resolve_from_message, where the caller notes it;
\* action, cost and level are the arguments and the result of a
\* get_approval_level call; category, action and output are the intent and
\* the planning model's answer of a create_plan call, and consulted tells
\* whether that call asked the planning model; an execute_plan call keeps
\* category and output, which tell where the plan it ran came from; ids is
\* the highest Step id that had been handed out when a replan call returned.
NoRet ==
    [op |-> "init", user |-> "", arg |-> {}, arg_status |-> "", success |-> FALSE,
     requires_approval |-> FALSE, error |-> "", response |-> "", approval |-> {},
     item |-> {}, item_status |-> "", msg |-> "", count |-> 0, raised |-> FALSE,
     halted_at |-> 0, text |-> "", action |-> "", cost |-> {}, level |-> "",
     category |-> "", output |-> "", consulted |-> FALSE, ids |-> 0]

\* ------------------------------------------------------------ turn graph
\* The nodes of the graph (graph.py:85-91) and END.
GraphNodes ==
    {"parse_intent", "agent", "execute_tools", "request_approval",
     "execute_approved", "respond", "check_proactive"}
GraphEnd == "END"

\* create_initial_state(user_id, channel, message): the AgentState fields
\* that a node reads or that a node writes for a later node or turn.
\* `message` is the content of the last HumanMessage; an Optional field is a
\* set ({} is None); proactive_notifications is the length of the list.
create_initial_state(message) ==
    [message |-> message,
     tool_calls |-> <<>>,
     approval_status |-> "none",
     pending_approval |-> {},
     approval_response |-> {},
     proactive_notifications |-> 0,
     next_action |-> "parse_intent",
     should_respond |-> FALSE,
     final_response |-> {}]

\* What is remembered of the turn in progress, besides the AgentState:
\* entry (how the run was started), was_pending / action_before (the
\* approval_status = pending and pending_approval the thread held when the
\* message arrived), classified (the intent classifier was called),
\* tools_run (execute_tool was called in this turn), tool_invoked (it found
\* the tool, so that tool.execute was called), dispatched (the
\* execute_tool calls of the node that ran last), responds / proactives (how
\* often respond and check_proactive ran), trail (the last two nodes that
\* ran), proactive_failed (the proactive check raised), raised (the run
\* ended in an exception).
NewTurn(entry, was_pending, action_before) ==
    [entry |-> entry, was_pending |-> was_pending, action_before |-> action_before,
     classified |-> FALSE, tools_run |-> FALSE, tool_invoked |-> FALSE,
     dispatched |-> <<>>,
     responds |-> 0, proactives |-> 0, trail |-> <<>>,
     proactive_failed |-> FALSE, raised |-> FALSE]

\* A thread without a checkpoint: state.get(...) finds no value, which every
\* node treats as it treats the initial value.
NoGraph ==
    [state |-> create_initial_state(""), node |-> GraphEnd,
     turn |-> NewTurn("none", FALSE, {})]


\* The whole program state as one record, so that a call that makes nested
\* calls (execute_plan -> execute_step -> create_approval) is one transition.
Cur ==
    [steps |-> steps, plan_status |-> plan_status, approvals |-> approvals,
     pending_store |-> pending_store, user_pending |-> user_pending,
     audit_log |-> audit_log, invoked |-> invoked]

Commit(st) ==
    /\ steps' = st.steps
    /\ plan_status' = st.plan_status
    /\ approvals' = st.approvals
    /\ pending_store' = st.pending_store
    /\ user_pending' = st.user_pending
    /\ audit_log' = st.audit_log
    /\ invoked' = st.invoked

Range(s) == {s[i] : i \in DOMAIN s}

\* --------------------------------------------------------- ApprovalManager
is_expired_Never(a, t) == FALSE

\* PendingApproval.is_expired
is_expired(a, t) == t > a.expires_at /\ a.status = "pending"

\* ApprovalManager.create_approval: a fresh object, stored under its id and
\* appended to the user's id list.
create_approval(st, user_id, tool, action, n_options, plan_id, step_id, channel, expires_in_hours, t) ==
    LET id == Len(st.approvals) + 1
        approval ==
            [id |-> id, user_id |-> user_id, tool |-> tool, action |-> action,
             n_options |-> n_options, selected_option |-> {}, status |-> "pending",
             created_at |-> t, expires_at |-> t + expires_in_hours,
             resolved_at |-> {}, rejection_reason |-> "",
             plan_id |-> plan_id, step_id |-> step_id, channel |-> channel]
    IN  [st EXCEPT !.approvals = Append(@, approval),
                   !.pending_store = @ \cup {id},
                   !.user_pending = [@ EXCEPT ![user_id] = Append(@, id)]]

get_pending_st_NoFlip(st, approval_id, t) == st

\* ApprovalManager.get_pending: the lazy flip to expired on read ...
get_pending_st(st, approval_id, t) ==
    IF approval_id \in st.pending_store /\ is_expired(st.approvals[approval_id], t)
    THEN [st EXCEPT !.approvals[approval_id].status = "expired"]
    ELSE st

\* ... and what it returns ({} is None).
get_pending_ret(st, approval_id) ==
    IF approval_id \in st.pending_store THEN {approval_id} ELSE {}

\* ApprovalManager.get_user_pending: reads (and so lazily flips) every id of
\* the user's list, and returns those still pending, in creation order.
RECURSIVE ReadEach(_, _, _)
\* approval.py:148-149: get_pending is called on each id of the list in turn
ReadEach(st, approval_ids, t) ==
    IF approval_ids = <<>> THEN st
    ELSE ReadEach(get_pending_st(st, Head(approval_ids), t), Tail(approval_ids), t)

get_user_pending_st(st, user_id, t) == ReadEach(st, st.user_pending[user_id], t)

get_user_pending_ret(st, user_id, t) ==
    LET st1 == get_user_pending_st(st, user_id, t)
        StillPending(aid) == aid \in st1.pending_store /\ st1.approvals[aid].status = "pending"
    IN  SelectSeq(st.user_pending[user_id], StillPending)

IsPendingStatus_NotApproved(status) == status # "approved"

\* approval.py:164 and 183: only a pending item is resolved
IsPendingStatus(status) == status = "pending"

\* ApprovalManager.approve
approve_st(st, approval_id, selected_option, t) ==
    LET st1 == get_pending_st(st, approval_id, t)
    IN  IF get_pending_ret(st, approval_id) = {} THEN st1
        ELSE IF ~IsPendingStatus(st1.approvals[approval_id].status) THEN st1
        ELSE [st1 EXCEPT !.approvals[approval_id].status = "approved",
                         !.approvals[approval_id].selected_option = selected_option,
                         !.approvals[approval_id].resolved_at = {t}]

\* ApprovalManager.reject
reject_st(st, approval_id, reason, t) ==
    LET st1 == get_pending_st(st, approval_id, t)
    IN  IF get_pending_ret(st, approval_id) = {} THEN st1
        ELSE IF ~IsPendingStatus(st1.approvals[approval_id].status) THEN st1
        ELSE [st1 EXCEPT !.approvals[approval_id].status = "rejected",
                         !.approvals[approval_id].rejection_reason = reason,
                         !.approvals[approval_id].resolved_at = {t}]

\* Replies a user can send, as typed.  "sup2" stands for the one-character
\* reply U+00B2 (SUPERSCRIPT TWO).
Messages == {"approve", " YES ", "cancel", "1", "2", "3", "sup2", "hello"}

\* message.strip().lower()
StripLower(m) ==
    CASE m = " YES " -> "yes"
      [] OTHER -> m

AffirmativeTokens == {"approve", "yes", "ok", "confirm", "y", "proceed"}
NegativeTokens == {"cancel", "no", "reject", "n", "stop", "abort"}

\* str.isdigit() and int(), on the replies above.  isdigit() is true of
\* every character with the Unicode property Digit, superscripts included;
\* int() accepts decimal digits only and raises ValueError on U+00B2.
IsDigit(m) == m \in {"1", "2", "3", "sup2"}
IntRaises(m) == m = "sup2"
ToInt(m) == CASE m = "1" -> 1 [] m = "2" -> 2 [] m = "3" -> 3

MostRecent_Oldest(pending) == pending[1]

\* approval.py:206: pending[-1]
MostRecent(pending) == pending[Len(pending)]

\* ApprovalManager.resolve_from_message: the state after the call ...
resolve_from_message_st(st, user_id, raw, t) ==
    LET message == StripLower(raw)
        st1 == get_user_pending_st(st, user_id, t)
        pending == get_user_pending_ret(st, user_id, t)
    IN  IF pending = <<>> THEN st1
        ELSE LET aid == MostRecent(pending)
                 approval == st1.approvals[aid]
             IN  IF message \in AffirmativeTokens THEN approve_st(st1, aid, {}, t)
                 ELSE IF message \in NegativeTokens THEN reject_st(st1, aid, "User cancelled", t)
                 ELSE IF IsDigit(message) /\ approval.n_options > 0
                      THEN IF IntRaises(message) THEN st1
                           ELSE IF 1 <= ToInt(message) /\ ToInt(message) <= approval.n_options
                           THEN approve_st(st1, aid, {ToInt(message) - 1}, t)
                           ELSE st1
                 ELSE st1

\* ... and the pair it returns: <<resolved item or {}, status message>>.
resolve_from_message_ret(st, user_id, raw, t) ==
    LET message == StripLower(raw)
        st1 == get_user_pending_st(st, user_id, t)
        pending == get_user_pending_ret(st, user_id, t)
    IN  IF pending = <<>> THEN <<{}, "No pending approvals">>
        ELSE LET aid == MostRecent(pending)
                 approval == st1.approvals[aid]
             IN  IF message \in AffirmativeTokens THEN <<{aid}, "Approved">>
                 ELSE IF message \in NegativeTokens THEN <<{aid}, "Cancelled">>
                 ELSE IF IsDigit(message) /\ approval.n_options > 0
                      THEN IF IntRaises(message) THEN <<{}, "">>
                           ELSE IF 1 <= ToInt(message) /\ ToInt(message) <= approval.n_options
                           THEN <<{aid}, "Selected option">>
                           ELSE <<{}, "Invalid option">>
                 ELSE <<{}, "Reply 'approve' or 'cancel'">>

\* approval.py:219: int(message) is not guarded; the call ends in ValueError
\* when the reply is a digit that int() rejects and the target has options.
resolve_from_message_raises(st, user_id, raw, t) ==
    LET message == StripLower(raw)
        st1 == get_user_pending_st(st, user_id, t)
        pending == get_user_pending_ret(st, user_id, t)
    IN  /\ pending # <<>>
        /\ message \notin AffirmativeTokens \cup NegativeTokens
        /\ IsDigit(message)
        /\ st1.approvals[MostRecent(pending)].n_options > 0
        /\ IntRaises(message)

\* ApprovalManager.cleanup_expired: flips the items that are pending and past
\* expiry, and deletes exactly those from _pending (_user_pending is not
\* touched).
ExpiredIds(st, t) == {aid \in st.pending_store : is_expired(st.approvals[aid], t)}

cleanup_expired_st(st, t) ==
    LET expired == ExpiredIds(st, t)
    IN  [st EXCEPT !.approvals =
                       [i \in DOMAIN st.approvals |->
                           IF i \in expired
                           THEN [st.approvals[i] EXCEPT !.status = "expired"]
                           ELSE st.approvals[i]],
                   !.pending_store = @ \ expired]

cleanup_expired_ret(st, t) == Cardinality(ExpiredIds(st, t))


\* ------------------------------------------------------------------ Executor
\* ExecutionResult, as far as callers look at it
Result(success, requires_approval, error, response, approval) ==
    [success |-> success, requires_approval |-> requires_approval,
     error |-> error, response |-> response, approval |-> approval]

\* Executor._audit: one entry appended
AuditEntry(user_id, tool, action, result, error, approval_id, plan_id, step_id) ==
    [user_id |-> user_id, tool |-> tool, action |-> action, result |-> result,
     error |-> error, approval_id |-> approval_id, plan_id |-> plan_id,
     step_id |-> step_id]

audit(st, entry) == [st EXCEPT !.audit_log = Append(@, entry)]

\* history of a tool.execute call: from where, for which step, with what
\* outcome, and the statuses at that moment of the approvals created for the step
Invocation(st, via, i, outcome) ==
    [via |-> via, step |-> i, outcome |-> outcome,
     approval_statuses |->
        {st.approvals[a].status :
            a \in {x \in DOMAIN st.approvals : st.approvals[x].step_id = {st.steps[i].id}}}]

invoke(st, via, i, outcome) ==
    [st EXCEPT !.invoked = Append(@, Invocation(st, via, i, outcome))]

\* result="success" if result.success else "failure"
AuditResult(outcome) == IF outcome = "success" THEN "success" ELSE "failure"

StepExceptionAudit_None(st, user_id, step, plan_id, i) == st

\* executor.py:213-224: the except branch of execute_step audits the attempt
StepExceptionAudit(st, user_id, step, plan_id, i) ==
    audit(st, AuditEntry(user_id, step.tool, step.action, "error", "exception", {}, plan_id,
                         {step.id}))

\* Executor.execute_step on plan.steps[i]: the state after it and its result
execute_step(st, i, user_id, plan_id, channel, outcome, t) ==
    LET st1 == [st EXCEPT !.steps[i].status = "in_progress"]
        step == st1.steps[i]
    IN  IF step.tool \notin RegisteredTools
        THEN [st |-> st1,
              res |-> Result(FALSE, FALSE, "Tool not found", "", {})]
        ELSE IF NeedsApproval(ResolveLevel(step))
        THEN LET st2 == create_approval(st1, user_id, step.tool, step.action, 0,
                                        plan_id, {step.id}, channel, DefaultExpiresInHours, t)
             IN  [st |-> st2,
                  res |-> Result(TRUE, TRUE, "", "", {Len(st2.approvals)})]
        ELSE LET st2 == invoke(st1, "execute_step", i, outcome)
             IN  IF outcome = "raise"
                 THEN [st |-> StepExceptionAudit(st2, user_id, step, plan_id, i),
                       res |-> Result(FALSE, FALSE, "exception", "", {})]
                 ELSE [st |-> audit(st2, AuditEntry(user_id, step.tool, step.action,
                                        AuditResult(outcome),
                                        IF outcome = "success" THEN "" ELSE "tool error",
                                        {}, plan_id, {step.id})),
                       res |-> Result(outcome = "success", FALSE,
                                      IF outcome = "success" THEN "" ELSE "tool error",
                                      "summary", {})]

HaltAt_NoMark(st, i, approval) ==
    [st |-> st,
     res |-> Result(TRUE, TRUE, "", "approval prompt", approval),
     halted_at |-> i]

\* executor.py:95-105: the loop stops at a step whose result asks for
\* approval, marks it awaiting_approval and returns the approval
HaltAt(st, i, approval) ==
    [st |-> [st EXCEPT !.steps[i].status = "awaiting_approval"],
     res |-> Result(TRUE, TRUE, "", "approval prompt", approval),
     halted_at |-> i]

MarkCompleted_Leave(st, i) == st

\* executor.py:119-120: a step whose result is a success is marked completed
\* and keeps the data of the result
MarkCompleted(st, i) ==
    [st EXCEPT !.steps[i].status = "completed", !.steps[i].result = {"data"}]

IsProcessed_DoneOnly(step) == step.status \in {"completed", "failed"}

\* executor.py:89-90: a step that is not pending is skipped
IsProcessed(step) == step.status # "pending"

\* Executor.execute_plan's loop from position i on; outs[j] is what
\* tool.execute does if step j is invoked.
RECURSIVE execute_loop(_, _, _, _, _, _)
execute_loop(st, i, user_id, channel, outs, t) ==
    IF i > Len(st.steps)
    THEN [st |-> [st EXCEPT !.plan_status = "completed"],
          res |-> Result(TRUE, FALSE, "", "summary", {}), halted_at |-> 0]
    ELSE IF IsProcessed(st.steps[i])
    THEN execute_loop(st, i + 1, user_id, channel, outs, t)
    ELSE LET r == execute_step(st, i, user_id, {PlanId}, channel, outs[i], t)
         IN  IF r.res.requires_approval
             THEN HaltAt(r.st, i, r.res.approval)
             ELSE IF ~r.res.success
             THEN [st |-> [r.st EXCEPT !.steps[i].status = "failed",
                                       !.steps[i].error = r.res.error,
                                       !.plan_status = "failed"],
                   res |-> Result(FALSE, FALSE, r.res.error, "Sorry, I encountered an error", {}),
                   halted_at |-> 0]
             ELSE execute_loop(MarkCompleted(r.st, i), i + 1, user_id, channel, outs, t)

\* Executor.execute_plan
execute_plan(st, user_id, channel, outs, t) ==
    IF st.steps = <<>>
    THEN [st |-> st, res |-> Result(TRUE, FALSE, "", "", {}), halted_at |-> 0]
    ELSE execute_loop([st EXCEPT !.plan_status = "in_progress"], 1, user_id, channel, outs, t)

IsApproved_NotRejected(approval) == approval.status # "rejected"

\* executor.py:240: resume proceeds only on an approved item
IsApproved(approval) == approval.status = "approved"

ContinuesPlan_UnlessRaised(outcome) == outcome # "raise"

\* executor.py:295: resume goes on with the plan only if the tool reported
\* success
ContinuesPlan(outcome) == outcome = "success"

\* executor.py:248-252: the step the approval targeted, {} if none
FindStep(st, approval) ==
    LET matching == {i \in DOMAIN st.steps : approval.step_id = {st.steps[i].id}}
    IN  {i \in matching : \A j \in matching : i <= j}

\* executor.py:305-310: the except branch of resume_after_approval returns the
\* error and records nothing
ResumeExceptionAudit(st, user_id, step, approval, i) == st

\* executor.py:279-280: the step is marked completed and takes result.data
\* (None when the tool reports a failure) as soon as tool.execute returns
ResumeMark(st, i, outcome) ==
    [st EXCEPT !.steps[i].status = "completed",
               !.steps[i].result = IF outcome = "success" THEN {"data"} ELSE {}]

\* Executor.resume_after_approval(approval, plan, user_id, channel); `raised`
\* is TRUE when the option lookup approval.options[selected_option] fails.
resume_after_approval(st, aid, user_id, channel, outcome, outs, t) ==
    LET approval == st.approvals[aid]
        found == FindStep(st, approval)
        Fail(s, error, response) ==
            [st |-> s, res |-> Result(FALSE, FALSE, error, response, {}),
             halted_at |-> 0, raised |-> FALSE]
    IN  IF ~IsApproved(approval)
        THEN Fail(st, "Action was not approved", "Action cancelled.")
        ELSE IF found = {}
        THEN Fail(st, "Could not find pending step", "")
        ELSE LET i == CHOOSE x \in found : TRUE
                 step == st.steps[i]
             IN  IF step.tool \notin RegisteredTools
                 THEN Fail(st, "Tool not found", "")
                 ELSE IF /\ approval.selected_option # {}
                         /\ approval.n_options > 0
                         /\ \E k \in approval.selected_option : k >= approval.n_options
                 THEN [st |-> st, res |-> Result(FALSE, FALSE, "", "", {}),
                       halted_at |-> 0, raised |-> TRUE]
                 ELSE LET st1 == IF approval.selected_option # {} /\ approval.n_options > 0
                                 THEN [st EXCEPT !.steps[i].parameters = approval.selected_option]
                                 ELSE st
                          st2 == invoke(st1, "resume_after_approval", i, outcome)
                      IN  IF outcome = "raise"
                          THEN Fail(ResumeExceptionAudit(st2, user_id, step, approval, i),
                                    "exception", "Error")
                          ELSE LET st3 == audit(ResumeMark(st2, i, outcome),
                                                AuditEntry(user_id, step.tool, step.action,
                                                    AuditResult(outcome),
                                                    IF outcome = "success" THEN "" ELSE "tool error",
                                                    {aid}, {PlanId}, {step.id}))
                               IN  IF ContinuesPlan(outcome)
                                   THEN LET r == execute_plan(st3, user_id, channel, outs, t)
                                        IN  [st |-> r.st, res |-> r.res,
                                             halted_at |-> r.halted_at, raised |-> FALSE]
                                   ELSE Fail(st3, "tool error", "Action failed")


\* ------------------------------------------------------------------ actions
SeqsUpTo(S, n) == UNION {[1..k -> S] : k \in 0..n}

NoApprovals == [u \in Users |-> <<>>]

\* The steps of the plans the Executor is driven through: a read-only action
\* (tier none), an action that needs confirmation (the tool declares confirm
\* and the planning model set needs_approval), and a step naming a tool that
\* is not registered.
PlanStepKinds ==
    {k \in StepKinds :
        \/ k.action = "list_accounts" /\ k.approval_level = "none"
        \/ k.action = "schedule_payment" /\ k.approval_level = "confirm"
        \/ k.tool = UnregisteredTool}

NewExecutor ==
    /\ approvals = <<>>
    /\ pending_store = {}
    /\ user_pending = NoApprovals
    /\ audit_log = <<>>
    /\ invoked = <<>>
    /\ now = 0
    /\ ret = NoRet

\* No message has arrived yet: no task is in flight and the thread has no
\* checkpoint.
NoTurns ==
    /\ tasks = {}
    /\ graph = NoGraph

\* A plan as the Planner hands it over (all steps pending), an Executor and
\* an ApprovalManager just constructed.
Init ==
    /\ steps \in {PlanSteps(kinds) : kinds \in SeqsUpTo(PlanStepKinds, MaxSteps)}
    /\ plan_status = "pending"
    /\ NewExecutor
    /\ NoTurns

ExecRet(op, user_id, arg, arg_status, r, raised) ==
    [NoRet EXCEPT !.op = op, !.user = user_id, !.arg = arg, !.arg_status = arg_status,
                  !.success = r.res.success,
                  !.requires_approval = r.res.requires_approval,
                  !.error = r.res.error, !.response = r.res.response,
                  !.approval = r.res.approval, !.halted_at = r.halted_at,
                  !.raised = raised]

\* What tool.execute does for each step the loop of execute_plan can reach
\* (only pending steps are executed).
StepOutcomes ==
    {outs \in [DOMAIN steps -> Outcomes] :
        \A j \in DOMAIN steps : steps[j].status # "pending" => outs[j] = "success"}

\* await executor.execute_plan(plan, user_id, channel)
ExecutePlanBy(users) ==
    \E user_id \in users, outs \in StepOutcomes :
        LET r == execute_plan(Cur, user_id, Channel, outs, now)
        IN  /\ Len(r.st.invoked) <= MaxCalls
            /\ Commit(r.st)
            /\ ret' = [ExecRet("execute_plan", user_id, {}, "", r, FALSE)
                       EXCEPT !.category = ret.category, !.output = ret.output]
            /\ UNCHANGED <<now, tasks, graph>>

\* await executor.execute_plan(plan, user_id, channel), by the user whose
\* turn owns the plan
ExecutePlan == ExecutePlanBy({PlanOwner})

\* await executor.resume_after_approval(approval, plan, user_id, channel),
\* for a tool call that ends in one of `outcomes`; the outcomes of later
\* steps matter only if the call can go on to them
ResumeBy(users, outcomes) ==
    \E aid \in DOMAIN approvals, user_id \in users, outcome \in outcomes :
      \E outs \in IF outcome = "success" /\ approvals[aid].status = "approved"
                  THEN StepOutcomes
                  ELSE {[j \in DOMAIN steps |-> "success"]} :
        LET r == resume_after_approval(Cur, aid, user_id, Channel, outcome, outs, now)
        IN  /\ Len(r.st.invoked) <= MaxCalls
            /\ Commit(r.st)
            /\ ret' = ExecRet("resume_after_approval", user_id, {aid},
                              approvals[aid].status, r, r.raised)
            /\ UNCHANGED <<now, tasks, graph>>

ResumeCall(outcomes) == ResumeBy({PlanOwner}, outcomes)

ResumeAfterApproval == ResumeCall(Outcomes)

ItemRet(op, user_id, arg, arg_status, st, item, msg, count) ==
    [NoRet EXCEPT !.op = op, !.user = user_id, !.arg = arg, !.arg_status = arg_status,
                  !.item = item,
                  !.item_status = IF item = {} THEN ""
                                  ELSE st.approvals[CHOOSE x \in item : TRUE].status,
                  !.msg = msg, !.count = count]

OptionArgs == {{}, {1}}
Reasons == {"changed my mind"}

\* A call of the ApprovalManager whose return value the caller looks at
\* (recorded in ret), or discards.
Returned(recorded, r) == ret' = IF recorded THEN r ELSE ret

\* await approval_manager.approve(approval_id, selected_option)
ApproveCall(options, recorded) ==
    \E aid \in DOMAIN approvals, selected_option \in options :
        LET st == approve_st(Cur, aid, selected_option, now)
        IN  /\ Commit(st)
            /\ Returned(recorded, ItemRet("approve", "", {aid}, approvals[aid].status, st,
                                          get_pending_ret(Cur, aid), "", 0))
            /\ UNCHANGED <<now, tasks, graph>>

\* await approval_manager.reject(approval_id, reason)
RejectCall(reasons, recorded) ==
    \E aid \in DOMAIN approvals, reason \in reasons :
        LET st == reject_st(Cur, aid, reason, now)
        IN  /\ Commit(st)
            /\ Returned(recorded, ItemRet("reject", "", {aid}, approvals[aid].status, st,
                                          get_pending_ret(Cur, aid), "", 0))
            /\ UNCHANGED <<now, tasks, graph>>

\* await approval_manager.resolve_from_message(user_id, message)
ResolveBy(users, messages, recorded, noted) ==
    \E user_id \in users, message \in messages :
        LET st == resolve_from_message_st(Cur, user_id, message, now)
            rv == resolve_from_message_ret(Cur, user_id, message, now)
        IN  /\ Commit(st)
            /\ Returned(recorded,
                        [ItemRet("resolve_from_message", user_id, {}, "", st,
                                 rv[1], rv[2], 0)
                         EXCEPT !.raised = resolve_from_message_raises(Cur, user_id, message, now),
                                !.text = IF noted THEN message ELSE ""])
            /\ UNCHANGED <<now, tasks, graph>>

ResolveCall(messages, recorded, noted) == ResolveBy(Users, messages, recorded, noted)

Approve == ApproveCall(OptionArgs, TRUE)
Reject == RejectCall(Reasons, TRUE)
ResolveFromMessage == ResolveCall(Messages, TRUE, FALSE)

\* The same calls made while a plan is being driven: an approval of the plan
\* is resolved, by id or by the user's reply, and ret keeps the result of the
\* last Executor call.  The approvals execute_step creates have no options,
\* so a reply is an affirmative token, a negative token or other text.
PlanReplies == {"approve", " YES ", "cancel", "hello"}
ApproveReply == ApproveCall({{}}, FALSE)
RejectReply == RejectCall({"User cancelled"}, FALSE)
ResolveReply == ResolveCall(PlanReplies, FALSE, FALSE)

\* await approval_manager.get_pending(approval_id)
GetPending ==
    \E aid \in DOMAIN approvals :
        LET st == get_pending_st(Cur, aid, now)
        IN  /\ Commit(st)
            /\ ret' = ItemRet("get_pending", "", {aid}, approvals[aid].status, st,
                              get_pending_ret(Cur, aid), "", 0)
            /\ UNCHANGED <<now, tasks, graph>>

\* approval_manager.cleanup_expired()
CleanupExpired ==
    LET st == cleanup_expired_st(Cur, now)
    IN  /\ Commit(st)
        /\ ret' = ItemRet("cleanup_expired", "", {}, "", st, {}, "", cleanup_expired_ret(Cur, now))
        /\ UNCHANGED <<now, tasks, graph>>

\* Time passes: datetime.utcnow() advances to just past one expiry period.
Tick ==
    /\ now + DefaultExpiresInHours + 1 <= MaxTime
    /\ now' = now + DefaultExpiresInHours + 1
    /\ UNCHANGED <<steps, plan_status, approvals, pending_store, user_pending,
                   audit_log, invoked, ret, tasks, graph>>

\* await executor.execute_step(step, user_id, plan_id, channel), called on a
\* step directly
ExecuteStep ==
    \E i \in DOMAIN steps, user_id \in Users, outcome \in Outcomes :
        LET r == execute_step(Cur, i, user_id, {PlanId}, Channel, outcome, now)
        IN  /\ Len(r.st.invoked) <= MaxCalls
            /\ Len(r.st.approvals) <= MaxApprovals
            /\ Commit(r.st)
            /\ ret' = ExecRet("execute_step", user_id, {i}, "",
                              [res |-> r.res, halted_at |-> 0], FALSE)
            /\ UNCHANGED <<now, tasks, graph>>

\* options: a list of two options (the approvals execute_step creates have
\* options=None)
OptionCounts == {2}

\* await approval_manager.create_approval(user_id, tool, action, description,
\* parameters, options=..., expires_in_hours=24), called directly
CreateApprovalBy(users, counts) ==
    \E user_id \in users, n_options \in counts :
        LET st == create_approval(Cur, user_id, "finance", "schedule_payment", n_options,
                                  {}, {}, Channel, DefaultExpiresInHours, now)
        IN  /\ Len(approvals) < MaxApprovals
            /\ Commit(st)
            /\ ret' = ItemRet("create_approval", user_id, {}, "", st,
                              {Len(st.approvals)}, "", 0)
            /\ UNCHANGED <<now, tasks, graph>>

CreateApprovalCall(counts) == CreateApprovalBy(Users, counts)

CreateApproval == CreateApprovalCall(OptionCounts)

\* options=None, or a list of two options
ReplyOptionCounts == {0, 2}

\* Approvals created with and without options, and the user's replies to
\* them, the caller keeping the reply next to the result.
CreateForReply == CreateApprovalCall(ReplyOptionCounts)
ResolveReplyText == ResolveCall(Messages, TRUE, TRUE)

\* -------------------------------------------------------- concurrent turns
\* Each inbound message is handled by its own asyncio task.  The event loop
\* runs one task at a time, in any order, and a task gives up control only at
\* an `await` that reaches a suspended future.
ConcReplies == {"approve", "cancel"}

\* A turn in flight: the turn of `user` that executes a gated step of the
\* user's plan, or the turn that takes the user's reply.  pc is "ready"
\* until the task first runs; a reply task that was suspended between
\* choosing its target and resolving it is at "picked" and holds the target.
TurnTasks ==
    [user : Users, kind : {"gated_step"}, text : {""}, pc : {"ready"}, target : {{}}]
    \cup
    [user : Users, kind : {"reply"}, text : ConcReplies, pc : {"ready"}, target : {{}}]

\* The gated step of each user's plan, as the Planner creates it
\* (schedule_payment, needs_approval).
GatedStep ==
    [tool |-> "finance", action |-> "schedule_payment", approval_level |-> "confirm",
     status |-> "pending", parameters |-> {}]
UserStep(u) == IF u = "u1" THEN 1 ELSE 2

ManagerAwaitYields_Always == TRUE

\* Whether awaiting a coroutine of the ApprovalManager hands control to the
\* event loop: get_pending, get_user_pending, approve and reject await
\* nothing but each other (approval.py:137-190), so they run to completion
\* inside the caller's step.
ManagerAwaitYields == FALSE

\* A message arrives and its task is scheduled.
Arrive ==
    \E task \in TurnTasks :
        /\ task \notin tasks
        /\ Cardinality(tasks) < MaxCalls
        /\ tasks' = tasks \cup {task}
        /\ UNCHANGED <<steps, plan_status, approvals, pending_store, user_pending,
                       audit_log, invoked, now, ret, graph>>

\* The event loop runs a turn that executes its gated step:
\* execute_step reaches `await approval_manager.create_approval(...)`
\* (executor.py:164), which does not suspend, and returns.
GatedStepTurn ==
    \E task \in tasks :
        /\ task.kind = "gated_step"
        /\ LET r == execute_step(Cur, UserStep(task.user), task.user, {PlanId}, Channel,
                                 "success", now)
           IN  /\ Len(r.st.approvals) <= MaxApprovals
               /\ Commit(r.st)
               /\ ret' = ExecRet("execute_step", task.user, {UserStep(task.user)}, "",
                                 [res |-> r.res, halted_at |-> 0], FALSE)
        /\ tasks' = tasks \ {task}
        /\ UNCHANGED <<now, graph>>

\* The event loop runs a turn that takes a reply:
\* `await approval_manager.resolve_from_message(user, text)`.  The call
\* first awaits get_user_pending and takes pending[-1] (approval.py:201-206),
\* then awaits approve or reject of that item (approval.py:209-215).
ReplyTurn ==
    \E task \in tasks :
        /\ task.kind = "reply"
        /\ IF task.pc = "ready" /\ ~ManagerAwaitYields
           THEN LET st == resolve_from_message_st(Cur, task.user, task.text, now)
                    rv == resolve_from_message_ret(Cur, task.user, task.text, now)
                IN  /\ Commit(st)
                    /\ ret' = ItemRet("resolve_from_message", task.user, {}, "", st,
                                      rv[1], rv[2], 0)
                    /\ tasks' = tasks \ {task}
           ELSE IF task.pc = "ready"
           THEN LET st == get_user_pending_st(Cur, task.user, now)
                    pending == get_user_pending_ret(Cur, task.user, now)
                IN  /\ Commit(st)
                    /\ ret' = ret
                    /\ tasks' = (tasks \ {task}) \cup
                                {[task EXCEPT !.pc = "picked",
                                              !.target = IF pending = <<>> THEN {}
                                                         ELSE {MostRecent(pending)}]}
           ELSE LET message == StripLower(task.text)
                    st == IF task.target = {} THEN Cur
                          ELSE LET aid == CHOOSE a \in task.target : TRUE
                               IN  IF message \in AffirmativeTokens
                                   THEN approve_st(Cur, aid, {}, now)
                                   ELSE reject_st(Cur, aid, "User cancelled", now)
                IN  /\ Commit(st)
                    /\ ret' = ItemRet("resolve_from_message", task.user, {}, "", st,
                                      task.target, "", 0)
                    /\ tasks' = tasks \ {task}
        /\ UNCHANGED <<now, graph>>

\* ---------------------------------------------------- turn graph: nodes
\* Tools requiring approval (for routing)
APPROVAL_REQUIRED_TOOLS ==
    {"book_flight", "create_calendar_event", "update_calendar_event",
     "delete_calendar_event", "send_email", "reply_email", "schedule_payment",
     "submit_tax_return"}

\* The names under which register_all_tools registers the tools
GraphRegistry ==
    {"travel", "calendar", "email", "gmail", "finance", "research",
     "flight_booking_chrome", "payments"}

\* Names the model can put in response.tool_calls: tools bound to it
\* (weather, list_accounts) and approval-required actions.
RequestedNames == {"weather", "list_accounts", "schedule_payment", "book_flight"}

\* `"_" in name` and name.split("_")[0], on the names above
HasUnderscore(name) == name # "weather"
SplitFirst(name) ==
    CASE name = "list_accounts" -> "list"
      [] name = "schedule_payment" -> "schedule"
      [] name = "book_flight" -> "book"
      [] OTHER -> name

\* nodes.py:218: the tool execute_tools_node asks the registry for
ToolsNodeToolName(name) == IF HasUnderscore(name) THEN SplitFirst(name) ELSE "research"

\* nodes.py:297: the tool execute_approved_node asks the registry for
ApprovedNodeToolName(name) == IF HasUnderscore(name) THEN SplitFirst(name) ELSE name

\* execute_tool(tool_name, action, params, user_id): the call, whether the
\* registry had the tool, and result["success"].  An exception of
\* tool.execute is caught and becomes success = False.
execute_tool(tool_name, action, outcome) ==
    [tool_name |-> tool_name, action |-> action,
     found |-> tool_name \in GraphRegistry,
     success |-> tool_name \in GraphRegistry /\ outcome = "success"]

\* Messages of a turn, as typed.
TurnMessages == {"approve", "cancel", "2", "sup2", "hello", ""}

\* nodes.py:83 and nodes.py:89
ApproveLike == {"approve", "yes", "ok", "confirm", "y", "proceed"}
RejectLike == {"cancel", "no", "reject", "n", "stop", "abort"}

\* What the intent classifier answers: needs_action with confidence > 0.5,
\* anything else (unparsable JSON included), or the call raises.
Classifications == {"actionable", "conversation", "raise"}

\* What the model with tools answers in agent_node: a list of tool calls
\* (empty: a plain reply); "raise" is drawn separately.
AgentRequests == UNION {[1..k -> RequestedNames] : k \in 0..2}

\* A node ran and the graph moved to `next`.
Ran(g, node, next) ==
    [g EXCEPT !.node = next,
              !.turn.trail = IF Len(@) < 2 THEN Append(@, node) ELSE <<@[2], node>>]

\* A node raised: the run ends with the exception, the thread keeps the
\* state of the last node that completed.
Raised(g, node) ==
    [Ran(g, node, GraphEnd) EXCEPT !.turn.raised = TRUE, !.turn.dispatched = <<>>]

\* route_after_intent / route_after_agent
route_after_intent(state) == state.next_action
route_after_agent(state) == state.next_action

\* The fixed edges of the graph (graph.py:119-129)
AfterExecuteTools == "agent"
AfterRequestApproval == "respond"
AfterExecuteApproved == "respond"

AfterRespond_End == GraphEnd

AfterRespond == "check_proactive"
AfterCheckProactive == GraphEnd

\* parse_intent_node: the state it returns; `classification` is what the
\* classifier answers if it is called.
UsesClassifier(state) ==
    LET message_lower == StripLower(state.message)
    IN  /\ state.message # ""
        /\ ~(/\ state.approval_status = "pending"
             /\ \/ message_lower \in ApproveLike
                \/ message_lower \in RejectLike
                \/ IsDigit(message_lower))

parse_intent_node(state, classification) ==
    LET message_lower == StripLower(state.message)
    IN  IF state.message = ""
        THEN [state EXCEPT !.next_action = "respond", !.should_respond = TRUE]
        ELSE IF state.approval_status = "pending" /\ message_lower \in ApproveLike
        THEN [state EXCEPT !.approval_status = "approved",
                           !.approval_response = {[kind |-> "approved", text |-> ""]},
                           !.next_action = "execute_approved"]
        ELSE IF state.approval_status = "pending" /\ message_lower \in RejectLike
        THEN [state EXCEPT !.approval_status = "rejected",
                           !.approval_response = {[kind |-> "rejected", text |-> ""]},
                           !.next_action = "respond",
                           !.final_response = {"Understood, I've cancelled that action."},
                           !.should_respond = TRUE]
        ELSE IF state.approval_status = "pending" /\ IsDigit(message_lower)
        THEN [state EXCEPT !.approval_status = "approved",
                           !.approval_response = {[kind |-> "option", text |-> message_lower]},
                           !.next_action = "execute_approved"]
        ELSE IF classification = "actionable"
        THEN [state EXCEPT !.next_action = "agent"]
        ELSE [state EXCEPT !.next_action = "respond", !.should_respond = TRUE]

NeedsApprovalCall_FirstOnly(tool_calls) == tool_calls[1] \in APPROVAL_REQUIRED_TOOLS

\* nodes.py:169: any(tc["name"] in APPROVAL_REQUIRED_TOOLS for tc in tool_calls)
NeedsApprovalCall(tool_calls) ==
    \E i \in DOMAIN tool_calls : tool_calls[i] \in APPROVAL_REQUIRED_TOOLS

\* nodes.py:173: next(tc for tc in tool_calls if tc["name"] in APPROVAL_REQUIRED_TOOLS)
FirstApprovalCall(tool_calls) ==
    tool_calls[CHOOSE i \in DOMAIN tool_calls :
                  /\ tool_calls[i] \in APPROVAL_REQUIRED_TOOLS
                  /\ \A j \in 1..(i - 1) : tool_calls[j] \notin APPROVAL_REQUIRED_TOOLS]

\* agent_node, for the tool calls of the model's answer
agent_node(state, tool_calls) ==
    IF tool_calls # <<>>
    THEN IF NeedsApprovalCall(tool_calls)
         THEN [state EXCEPT !.tool_calls = tool_calls,
                            !.next_action = "request_approval",
                            !.pending_approval = {FirstApprovalCall(tool_calls)}]
         ELSE [state EXCEPT !.tool_calls = tool_calls,
                            !.next_action = "execute_tools"]
    ELSE [state EXCEPT !.next_action = "respond",
                       !.should_respond = TRUE,
                       !.final_response = {"response.content"}]

\* execute_tools_node: the execute_tool calls it makes, in order (outs[i] is
\* what tool.execute does for call i), and the state it returns
execute_tools_calls(state, outs) ==
    [i \in DOMAIN state.tool_calls |->
        execute_tool(ToolsNodeToolName(state.tool_calls[i]), state.tool_calls[i], outs[i])]

execute_tools_node(state) ==
    IF state.tool_calls = <<>>
    THEN [state EXCEPT !.next_action = "agent"]
    ELSE [state EXCEPT !.tool_calls = <<>>, !.next_action = "agent"]

\* request_approval_node
request_approval_node(state) ==
    IF state.pending_approval = {}
    THEN [state EXCEPT !.next_action = "agent"]
    ELSE [state EXCEPT !.approval_status = "pending",
                       !.next_action = "respond",
                       !.should_respond = TRUE,
                       !.final_response = {"Approval Required"}]

\* execute_approved_node: int(approval_response.split("_")[1]) raises for a
\* digit that int() rejects (nodes.py:291)
execute_approved_raises(state) ==
    /\ state.pending_approval # {}
    /\ \E r \in state.approval_response : r.kind = "option" /\ IntRaises(r.text)

execute_approved_calls(state, outcome) ==
    IF state.pending_approval = {} THEN <<>>
    ELSE LET tool_name == CHOOSE n \in state.pending_approval : TRUE
         IN  <<execute_tool(ApprovedNodeToolName(tool_name), tool_name, outcome)>>

execute_approved_node_Keep(state, outcome) ==
    [state EXCEPT !.next_action = "respond", !.should_respond = TRUE]

execute_approved_node(state, outcome) ==
    IF state.pending_approval = {}
    THEN [state EXCEPT !.next_action = "respond",
                       !.final_response = {"Nothing to execute."}]
    ELSE [state EXCEPT !.approval_status = "none",
                       !.pending_approval = {},
                       !.next_action = "respond",
                       !.should_respond = TRUE,
                       !.final_response =
                           IF execute_approved_calls(state, outcome)[1].success
                           THEN {"Done!"} ELSE {"Sorry, that didn't work"}]

\* respond_node: keeps a final_response that is set, generates one otherwise
RespondGenerates(state) == state.final_response = {}

respond_node(state) ==
    IF ~RespondGenerates(state) THEN state
    ELSE [state EXCEPT !.final_response = {"response.content"}]

\* What proactive_engine.check_triggers does: raises, or returns a list of n
\* notifications
ProactiveOutcomes == {"raise"} \cup {"0", "1", "2", "3"}
NotificationCount(outcome) ==
    CASE outcome = "1" -> 1 [] outcome = "2" -> 2 [] outcome = "3" -> 3 [] OTHER -> 0

ProactiveErrorPropagates_Always(outcome) == outcome = "raise"

\* nodes.py:370-371: `except Exception: pass`
ProactiveErrorPropagates(outcome) == FALSE

\* nodes.py:362: notifications[:2]
KeptNotifications(n) == IF n > 2 THEN 2 ELSE n

\* check_proactive_node: the exception is swallowed and the list is empty
check_proactive_node(state, outcome) ==
    IF outcome = "raise"
    THEN [state EXCEPT !.proactive_notifications = 0]
    ELSE [state EXCEPT !.proactive_notifications = KeptNotifications(NotificationCount(outcome))]

\* -------------------------------------------------- turn graph: actions
\* The turn graph touches neither the Executor nor the ApprovalManager.
GraphOnly ==
    UNCHANGED <<steps, plan_status, approvals, pending_store, user_pending,
                audit_log, invoked, now, ret, tasks>>

\* await franklin_graph.run(user_id, channel, message, conversation_id):
\* ainvoke(create_initial_state(...), config) writes every key of the
\* initial state to the thread, over what the checkpoint held.
Run ==
    \E message \in TurnMessages :
        /\ graph.node = GraphEnd
        /\ graph' = [state |-> create_initial_state(message),
                     node |-> "parse_intent",
                     turn |-> NewTurn("run", graph.state.approval_status = "pending",
                                      graph.state.pending_approval)]
        /\ GraphOnly

\* The compiled graph of create_franklin_graph(checkpointer) invoked on the
\* thread with the new message alone: every other key keeps the value of
\* the checkpoint.
Ainvoke ==
    \E message \in TurnMessages :
        /\ graph.node = GraphEnd
        /\ graph' = [state |-> [graph.state EXCEPT !.message = message],
                     node |-> "parse_intent",
                     turn |-> NewTurn("ainvoke", graph.state.approval_status = "pending",
                                      graph.state.pending_approval)]
        /\ GraphOnly

ParseIntentNode ==
    /\ graph.node = "parse_intent"
    /\ \E classification \in IF UsesClassifier(graph.state) THEN Classifications
                             ELSE {"conversation"} :
          LET state == parse_intent_node(graph.state, classification)
              g == [graph EXCEPT !.state = state,
                                 !.turn.classified = UsesClassifier(graph.state),
                                 !.turn.dispatched = <<>>]
          IN  graph' = IF UsesClassifier(graph.state) /\ classification = "raise"
                       THEN Raised([graph EXCEPT !.turn.classified = TRUE], "parse_intent")
                       ELSE Ran(g, "parse_intent", route_after_intent(state))
    /\ GraphOnly

AgentNode ==
    /\ graph.node = "agent"
    /\ \/ graph' = Raised(graph, "agent")
       \/ \E tool_calls \in AgentRequests :
             LET state == agent_node(graph.state, tool_calls)
                 g == [graph EXCEPT !.state = state, !.turn.dispatched = <<>>]
             IN  graph' = Ran(g, "agent", route_after_agent(state))
    /\ GraphOnly

ExecuteToolsNode ==
    /\ graph.node = "execute_tools"
    /\ \E outs \in [DOMAIN graph.state.tool_calls -> Outcomes] :
          LET calls == execute_tools_calls(graph.state, outs)
              g == [graph EXCEPT !.state = execute_tools_node(graph.state),
                                 !.turn.dispatched = calls,
                                 !.turn.tools_run = @ \/ calls # <<>>,
                                 !.turn.tool_invoked =
                                     @ \/ \E i \in DOMAIN calls : calls[i].found]
          IN  /\ \A i \in DOMAIN calls : ~calls[i].found => outs[i] = "success"
              /\ graph' = Ran(g, "execute_tools", AfterExecuteTools)
    /\ GraphOnly

RequestApprovalNode ==
    /\ graph.node = "request_approval"
    /\ LET g == [graph EXCEPT !.state = request_approval_node(graph.state),
                              !.turn.dispatched = <<>>]
       IN  graph' = Ran(g, "request_approval", AfterRequestApproval)
    /\ GraphOnly

ExecuteApprovedNode ==
    /\ graph.node = "execute_approved"
    /\ \E outcome \in Outcomes :
          LET calls == execute_approved_calls(graph.state, outcome)
              g == [graph EXCEPT !.state = execute_approved_node(graph.state, outcome),
                                 !.turn.dispatched = calls,
                                 !.turn.tools_run = @ \/ calls # <<>>,
                                 !.turn.tool_invoked =
                                     @ \/ \E i \in DOMAIN calls : calls[i].found]
          IN  /\ (calls = <<>> \/ ~calls[1].found) => outcome = "success"
              /\ graph' = IF execute_approved_raises(graph.state)
                          THEN Raised(graph, "execute_approved")
                          ELSE Ran(g, "execute_approved", AfterExecuteApproved)
    /\ GraphOnly

RespondNode ==
    /\ graph.node = "respond"
    /\ \/ /\ RespondGenerates(graph.state)
          /\ graph' = Raised([graph EXCEPT !.turn.responds = @ + 1], "respond")
       \/ LET g == [graph EXCEPT !.state = respond_node(graph.state),
                                 !.turn.dispatched = <<>>,
                                 !.turn.responds = @ + 1]
          IN  graph' = Ran(g, "respond", AfterRespond)
    /\ GraphOnly

CheckProactiveNode ==
    /\ graph.node = "check_proactive"
    /\ \E outcome \in ProactiveOutcomes :
          LET g == [graph EXCEPT !.state = check_proactive_node(graph.state, outcome),
                                 !.turn.dispatched = <<>>,
                                 !.turn.proactives = @ + 1,
                                 !.turn.proactive_failed = (outcome = "raise")]
          IN  graph' = IF ProactiveErrorPropagates(outcome)
                       THEN Raised(graph, "check_proactive")
                       ELSE Ran(g, "check_proactive", AfterCheckProactive)
    /\ GraphOnly

\* ------------------------------------------------------------ tier lookup
\* estimated_cost: None, or an amount around the two thresholds
Costs == {{}} \cup {{c} : c \in (0 - 1)..MaxCost}

\* the tier the tool declares for the action, or its default
DeclaredLevel(action) ==
    IF get_action(action) # {}
    THEN CHOOSE l \in get_action(action) : TRUE
    ELSE default_approval_level

\* tool.get_approval_level(action, estimated_cost)
GetApprovalLevel ==
    \E action \in DOMAIN FinanceActions \cup {UndeclaredAction}, estimated_cost \in Costs :
        /\ ret' = [NoRet EXCEPT !.op = "get_approval_level",
                                !.action = action,
                                !.cost = estimated_cost,
                                !.level = get_approval_level(action, estimated_cost)]
        /\ UNCHANGED <<steps, plan_status, approvals, pending_store, user_pending,
                       audit_log, invoked, now, tasks, graph>>

\* ------------------------------------------------------------ planner plans
\* The Steps create_plan builds from the planning model's output: any tool
\* and action the model names, at tier confirm when it sets needs_approval
\* and none otherwise.
PlannerStepKinds == {k \in StepKinds : k.approval_level \in {"none", "confirm"}}

\* ------------------------------------------------------------------ Planner
IntentCategory == {"travel", "finance", "calendar", "email", "research", "conversation", "unknown"}
IntentActions == {"list_accounts", "schedule_payment"}
Intents == [category : IntentCategory, action : IntentActions]

\* planner.py:223-231: category_to_tool.get(intent.category, "research")
category_to_tool(category) ==
    IF category \in {"travel", "finance", "calendar", "email", "research"}
    THEN category
    ELSE "research"

\* What the planning model can answer.  kind: the call raised (api_error),
\* text that is not JSON (not_json), JSON that is not an object, such as a
\* list or a string (not_object), an object whose "steps" is not a list of
\* objects (steps_not_list), an object without "steps" (no_steps), or an
\* object with a list of step objects (plan).  fence: the text is bare
\* (none), wrapped in a markdown code block with the fences on lines of
\* their own (lines), or wrapped in fences on the same line (inline).
OutputKinds == {"api_error", "not_json", "not_object", "steps_not_list", "no_steps", "plan"}
Fences == {"none", "lines", "inline"}

\* the step objects of a plan answer: tool, action, needs_approval
ModelSteps ==
    {[tool |-> "finance", action |-> "list_accounts", needs_approval |-> FALSE],
     [tool |-> "finance", action |-> "schedule_payment", needs_approval |-> TRUE],
     [tool |-> UnregisteredTool, action |-> UndeclaredAction, needs_approval |-> FALSE]}

ModelOutputs ==
    [kind : {"api_error"}, fence : {"none"}, steps : {<<>>}]
    \cup [kind : OutputKinds \ {"api_error", "plan"}, fence : Fences, steps : {<<>>}]
    \cup [kind : {"plan"}, fence : Fences, steps : SeqsUpTo(ModelSteps, MaxSteps)]

\* planner.py:174-181: strip(), drop the first and last line of a text that
\* starts with a fence, json.loads.  A one-line fenced text has no line left
\* and "" is not JSON.
ParsedKind(out) == IF out.fence = "inline" THEN "not_json" ELSE out.kind

\* planner.py:186-193: one Step per step object
StepFromData(step_data) ==
    [tool |-> step_data.tool, action |-> step_data.action,
     approval_level |-> IF step_data.needs_approval THEN "confirm" ELSE "none",
     status |-> "pending", parameters |-> {}]

\* a Plan as create_plan returns it: its steps and status, whether the
\* planning model was asked, and whether the call raised
PlanOf(plan_steps, status, consulted) ==
    [steps |-> plan_steps, status |-> status, consulted |-> consulted, raised |-> FALSE]

\* planner.py:208-210: only json.JSONDecodeError leads to the fallback plan
FallbackOnFailure(kind) == kind = "not_json"

\* Planner._create_fallback_plan
create_fallback_plan(intent) ==
    PlanOf(PlanSteps(<<[tool |-> category_to_tool(intent.category),
                         action |-> intent.action,
                         approval_level |-> "none", status |-> "pending",
                         parameters |-> {}]>>),
           "pending", TRUE)

IsConversation_Never(intent) == FALSE

\* planner.py:148: a conversation intent gets an empty plan at once
IsConversation(intent) == intent.category = "conversation"

\* Planner.create_plan
create_plan(intent, out) ==
    IF IsConversation(intent)
    THEN PlanOf(<<>>, "pending", FALSE)
    ELSE IF out.kind # "api_error" /\ ParsedKind(out) \in {"plan", "no_steps"}
    THEN PlanOf(PlanSteps([j \in DOMAIN out.steps |-> StepFromData(out.steps[j])]),
                "pending", TRUE)
    ELSE IF out.kind # "api_error" /\ FallbackOnFailure(ParsedKind(out))
    THEN create_fallback_plan(intent)
    ELSE PlanOf(<<>>, "failed", TRUE)

\* plan = await planner.create_plan(intent): the plan of the turn
CreatePlan ==
    \E intent \in Intents, out \in ModelOutputs :
        LET plan == create_plan(intent, out)
        IN  /\ ret.op = "init"
            /\ steps' = plan.steps
            /\ plan_status' = plan.status
            /\ ret' = [NoRet EXCEPT !.op = "create_plan",
                                    !.category = intent.category,
                                    !.action = intent.action,
                                    !.output = IF out.kind = "api_error" THEN out.kind
                                               ELSE ParsedKind(out),
                                    !.consulted = plan.consulted,
                                    !.raised = plan.raised]
            /\ UNCHANGED <<approvals, pending_store, user_pending, audit_log, invoked,
                           now, tasks, graph>>

\* ------------------------------------------------------------------- replan
\* A Step the Executor has worked on: its status, and the result and the
\* error the Executor stored in it.
StepObject(id, status, result) ==
    [id |-> id, tool |-> "finance", action |-> "list_accounts",
     approval_level |-> "none", status |-> status, parameters |-> {}, result |-> result,
     error |-> IF status = "failed" THEN "tool error" ELSE ""]

\* The statuses of the steps of a plan that execute_plan has been called on
\* any number of times: each step the loop got to is completed, failed or
\* awaiting_approval, and the steps it has not got to are pending.
ProcessedStatus == {"completed", "failed", "awaiting_approval"}

PlansInHand ==
    {p \in {[j \in 1..(Len(done) + n) |->
                IF j <= Len(done)
                THEN StepObject(j, done[j], IF done[j] = "completed" THEN {"data"} ELSE {})
                ELSE StepObject(j, "pending", {})] :
             done \in SeqsUpTo(ProcessedStatus, MaxSteps), n \in 0..MaxSteps} :
        Len(p) <= MaxSteps}

StepIds(plan_steps) == {plan_steps[j].id : j \in DOMAIN plan_steps}

Highest(S) == IF S = {} THEN 0 ELSE CHOOSE x \in S : \A y \in S : y <= x

IsCompletedStep(step) == step.status = "completed"
IsPendingStep(step) == step.status = "pending"

KeptSteps_None(plan_steps) == <<>>

\* planner.py:297: completed = [s for s in plan.steps if s.status == COMPLETED]
KeptSteps(plan_steps) == SelectSeq(plan_steps, IsCompletedStep)

\* planner.py:284-294: one new Step per step object of the answer, each with
\* a fresh id
NewSteps(out, first_id) ==
    [j \in DOMAIN out.steps |->
        [id |-> first_id + j - 1,
         tool |-> out.steps[j].tool, action |-> out.steps[j].action,
         approval_level |-> IF out.steps[j].needs_approval THEN "confirm" ELSE "none",
         status |-> "pending", parameters |-> {}, result |-> {}, error |-> ""]]

\* Planner.replan(plan, feedback): plan.steps after the call.  Any failure
\* of the model call or of the parsing is caught and the plan returned as
\* it is (planner.py:303-304).
replan(plan_steps, out, first_id) ==
    IF SelectSeq(plan_steps, IsPendingStep) = <<>> THEN plan_steps
    ELSE IF out.kind = "api_error" \/ ParsedKind(out) \notin {"plan", "no_steps"}
    THEN plan_steps
    ELSE KeptSteps(plan_steps) \o NewSteps(out, first_id)

\* plan = await planner.replan(plan, feedback)
Replan ==
    \E out \in ModelOutputs :
        LET first_id == Highest(StepIds(steps) \cup {ret.ids}) + 1
            new_steps == replan(steps, out, first_id)
            highest == Highest(StepIds(steps) \cup StepIds(new_steps) \cup {ret.ids})
        IN  /\ highest <= MaxStepIds
            /\ steps' = new_steps
            /\ ret' = [NoRet EXCEPT !.op = "replan",
                                    !.output = IF out.kind = "api_error" THEN out.kind
                                               ELSE ParsedKind(out),
                                    !.consulted = SelectSeq(steps, IsPendingStep) # <<>>,
                                    !.ids = highest]
            /\ UNCHANGED <<plan_status, approvals, pending_store, user_pending, audit_log,
                           invoked, now, tasks, graph>>

\* ------------------------------------------------------------------- expiry
\* One user with a plan of one gated step, whose approval execute_plan
\* creates, and with approvals that offer two options, created directly.
\* The user approves by id, or replies with an affirmative token, a negative
\* token, an option number or other text; the plan is resumed with tools
\* that succeed.
ExpiryReplies == {"approve", "cancel", "1", "hello"}
CreateOwnerApproval == CreateApprovalBy({PlanOwner}, OptionCounts)
ApproveById == ApproveCall({{}}, TRUE)
ResolveOwnerReply == ResolveBy({PlanOwner}, ExpiryReplies, TRUE, TRUE)
ResumeApproved == ResumeCall({"success"})

\* The Executor driving one plan, with the replies that resolve its approvals.
Next ==
    \/ ExecutePlan
    \/ ResumeAfterApproval
    \/ ApproveReply
    \/ RejectReply
    \/ ResolveReply
    \/ Tick

Spec == Init /\ [][Next]_vars

\* execute_step on a single Step of any kind.
InitStep ==
    /\ steps \in {PlanSteps(kinds) : kinds \in [1..1 -> StepKinds]}
    /\ plan_status = "pending"
    /\ NewExecutor
    /\ NoTurns

NextStep ==
    \/ ExecuteStep
    \/ Tick

SpecStep == InitStep /\ [][NextStep]_vars

\* The ApprovalManager on its own, its items addressed by id.
InitMgr ==
    /\ steps = <<>>
    /\ plan_status = "pending"
    /\ NewExecutor
    /\ NoTurns

NextMgr ==
    \/ CreateApproval
    \/ Approve
    \/ Reject
    \/ GetPending
    \/ CleanupExpired
    \/ Tick

SpecMgr == InitMgr /\ [][NextMgr]_vars

\* Replies resolving the approvals of two users.
InitResolve ==
    /\ steps = <<>>
    /\ plan_status = "pending"
    /\ NewExecutor
    /\ NoTurns

NextResolve ==
    \/ CreateApproval
    \/ ResolveFromMessage
    \/ CleanupExpired
    \/ Tick

SpecResolve == InitResolve /\ [][NextResolve]_vars

\* Free-text replies to approvals with and without options.
InitReply ==
    /\ steps = <<>>
    /\ plan_status = "pending"
    /\ NewExecutor
    /\ NoTurns

NextReply ==
    \/ CreateForReply
    \/ ResolveReplyText
    \/ Tick

SpecReply == InitReply /\ [][NextReply]_vars

\* Concurrent turns of two users, each with a plan of one gated step.
InitConc ==
    /\ steps = PlanSteps([i \in 1..Cardinality(Users) |-> GatedStep])
    /\ plan_status = "pending"
    /\ NewExecutor
    /\ NoTurns

NextConc ==
    \/ Arrive
    \/ GatedStepTurn
    \/ ReplyTurn
    \/ Tick

SpecConc == InitConc /\ [][NextConc]_vars

\* The turns of one conversation thread.
InitTurn ==
    /\ steps = <<>>
    /\ plan_status = "pending"
    /\ NewExecutor
    /\ NoTurns

NodeStep ==
    \/ ParseIntentNode
    \/ AgentNode
    \/ ExecuteToolsNode
    \/ RequestApprovalNode
    \/ ExecuteApprovedNode
    \/ RespondNode
    \/ CheckProactiveNode

NextTurn ==
    \/ Run
    \/ Ainvoke
    \/ ParseIntentNode
    \/ AgentNode
    \/ ExecuteToolsNode
    \/ RequestApprovalNode
    \/ ExecuteApprovedNode
    \/ RespondNode
    \/ CheckProactiveNode

SpecTurn == InitTurn /\ [][NextTurn]_vars

\* A run that has started goes on: the graph runs the node it is at.
SpecTurnFair == SpecTurn /\ WF_vars(NodeStep)


\* The tier lookup of a tool on its own.
InitLevel ==
    /\ steps = <<>>
    /\ plan_status = "pending"
    /\ NewExecutor
    /\ NoTurns

NextLevel ==
    \/ GetApprovalLevel
    \/ Tick

SpecLevel == InitLevel /\ [][NextLevel]_vars

\* execute_plan on the plans the Planner can hand over.
InitPlan ==
    /\ steps \in {PlanSteps(kinds) : kinds \in SeqsUpTo(PlannerStepKinds, MaxSteps)}
    /\ plan_status = "pending"
    /\ NewExecutor
    /\ NoTurns

NextPlan ==
    \/ ExecutePlan
    \/ Tick

SpecPlan == InitPlan /\ [][NextPlan]_vars

\* The Planner building the plan of a turn and the Executor running it.
InitPlanner ==
    /\ steps = <<>>
    /\ plan_status = "pending"
    /\ NewExecutor
    /\ NoTurns

NextPlanner ==
    \/ CreatePlan
    \/ ExecutePlan

SpecPlanner == InitPlanner /\ [][NextPlanner]_vars

\* Replanning a plan by itself: a plan as the Planner handed it over (status
\* pending, every step pending) or as execute_plan left it (in_progress after
\* a halt, completed after the loop ran to its end, failed after a failure).
InitReplan ==
    /\ steps \in PlansInHand
    /\ plan_status \in {"pending", "in_progress", "completed", "failed"}
    /\ (plan_status = "pending") = (\A j \in DOMAIN steps : steps[j].status = "pending")
    /\ (plan_status = "completed") => (\A j \in DOMAIN steps : steps[j].status # "pending")
    /\ (plan_status = "failed") => (\E j \in DOMAIN steps : steps[j].status = "failed")
    /\ NewExecutor
    /\ NoTurns

NextReplan ==
    \/ Replan

SpecReplan == InitReplan /\ [][NextReplan]_vars

\* Approvals of one user that lapse while they are pending.
InitExpiry ==
    /\ steps = PlanSteps(<<GatedStep>>)
    /\ plan_status = "pending"
    /\ NewExecutor
    /\ NoTurns

NextExpiry ==
    \/ ExecutePlan
    \/ CreateOwnerApproval
    \/ ApproveById
    \/ ResolveOwnerReply
    \/ ResumeApproved
    \/ CleanupExpired
    \/ Tick

SpecExpiry == InitExpiry /\ [][NextExpiry]_vars

\* A plan with gated steps run on behalf of either user: the runs, the
\* approvals by id and the resumptions.
InitGate ==
    /\ steps \in {PlanSteps(kinds) : kinds \in SeqsUpTo(PlanStepKinds, MaxSteps)}
    /\ plan_status = "pending"
    /\ NewExecutor
    /\ NoTurns

ExecutePlanAnyUser == ExecutePlanBy(Users)

NextGate ==
    \/ ExecutePlanAnyUser
    \/ ApproveById
    \/ ResumeAfterApproval

SpecGate == InitGate /\ [][NextGate]_vars

\* Approvals that offer options for the gated step of a plan, approved by id
\* with the option the caller passes, and the resumptions.
OptionIndexes == {{}, {0}, {1}, {2}}

\* await approval_manager.create_approval(user_id, tool, action, description,
\* parameters, options=[...], plan_id=plan.id, step_id=step.id, channel=...)
CreateStepApproval ==
    \E i \in DOMAIN steps, n_options \in ReplyOptionCounts :
        LET st == create_approval(Cur, PlanOwner, steps[i].tool, steps[i].action, n_options,
                                  {PlanId}, {steps[i].id}, Channel, DefaultExpiresInHours, now)
        IN  /\ Len(approvals) < MaxApprovals
            /\ Commit(st)
            /\ ret' = ItemRet("create_approval", PlanOwner, {}, "", st,
                              {Len(st.approvals)}, "", 0)
            /\ UNCHANGED <<now, tasks, graph>>

ApproveOption == ApproveCall(OptionIndexes, TRUE)

InitOption ==
    /\ steps = PlanSteps(<<GatedStep>>)
    /\ plan_status = "pending"
    /\ NewExecutor
    /\ NoTurns

NextOption ==
    \/ ExecutePlan
    \/ CreateStepApproval
    \/ ApproveOption
    \/ ResumeApproved

SpecOption == InitOption /\ [][NextOption]_vars

\* A plan that is replanned while it is being run: the runs, the replans,
\* the approvals by id and the resumptions.
InitRevise ==
    /\ steps \in {PlanSteps(kinds) : kinds \in SeqsUpTo(PlanStepKinds, MaxSteps)}
    /\ plan_status = "pending"
    /\ NewExecutor
    /\ NoTurns

NextRevise ==
    \/ ExecutePlan
    \/ Replan
    \/ ApproveById
    \/ ResumeApproved

SpecRevise == InitRevise /\ [][NextRevise]_vars

\* ------------------------------------------------------------------- claims
ExecutorOps == {"execute_plan", "resume_after_approval"}

\* positions of the tool invocations / audit entries / approvals a step adds
NewInvocations == (Len(invoked) + 1)..Len(invoked')
NewAuditEntries == (Len(audit_log) + 1)..Len(audit_log')
NewApprovals == (Len(approvals) + 1)..Len(approvals')

\* C1: the tool of a step that execute_plan halted on is invoked only while
\* the PendingApproval created for that step has status approved, and a
\* resume_after_approval with an approval that is pending, rejected or
\* expired returns the failure 'Action was not approved' / 'Action
\* cancelled.' and invokes no tool.
C1_ApprovedOnly ==
    /\ [](\A k \in DOMAIN invoked :
            invoked[k].approval_statuses # {} =>
                /\ invoked[k].approval_statuses = {"approved"}
                /\ invoked[k].via = "resume_after_approval")
    /\ [](ret.op = "resume_after_approval" /\ ret.arg_status # "approved" =>
            /\ ~ret.success
            /\ ret.error = "Action was not approved"
            /\ ret.response = "Action cancelled.")
    /\ [][ret'.op = "resume_after_approval" /\ ret'.arg_status # "approved" =>
            /\ invoked' = invoked
            /\ audit_log' = audit_log
            /\ steps' = steps]_vars

C1_Witness ==
    /\ ret.op = "resume_after_approval"
    /\ ret.arg_status = "expired"
    /\ ret.error = "Action was not approved"
    /\ \E k \in DOMAIN invoked : invoked[k].approval_statuses = {"approved"}

\* C2: for a Step whose own tier is confirm or strict, execute_step creates a
\* PendingApproval and returns requires_approval = true, never invokes the
\* tool and writes no AuditEntry, whatever tier the tool declares.
C2_StepTierGates ==
    (steps[1].tool \in RegisteredTools /\ steps[1].approval_level \in {"confirm", "strict"}) =>
        /\ invoked = <<>>
        /\ audit_log = <<>>
        /\ ret.op = "execute_step" => (ret.requires_approval /\ ret.approval # {})

\* C3: for a Step whose resolved tier is none (the tool declares none, or
\* does not declare the action, and the step tier is none), execute_step
\* creates no PendingApproval, leaves the approval store as it was and
\* invokes the tool.
C3_TierNoneNoApproval ==
    (/\ steps[1].tool \in RegisteredTools
     /\ steps[1].action \in {"list_accounts", UndeclaredAction}
     /\ steps[1].approval_level = "none") =>
        /\ approvals = <<>>
        /\ pending_store = {}
        /\ user_pending = NoApprovals
        /\ ret.op = "execute_step" =>
            /\ ~ret.requires_approval
            /\ ret.approval = {}
            /\ invoked # <<>>
            /\ \A k \in DOMAIN invoked : invoked[k].via = "execute_step" /\ invoked[k].step = 1

C3_Witness ==
    /\ steps[1].action = "list_accounts"
    /\ steps[1].approval_level = "none"
    /\ ret.op = "execute_step"
    /\ ret.success
    /\ Len(invoked) = 1
    /\ approvals = <<>>

\* C4: when execute_plan comes to the first pending step that requires
\* approval it marks that step awaiting_approval and returns
\* requires_approval = true with that step's approval; every later step
\* stays pending, and in that call no later step is invoked and the only
\* approval created is the one of that step.
C4_HaltsAtFirstGate ==
    /\ [](ret.op \in ExecutorOps /\ ret.halted_at > 0 =>
            /\ steps[ret.halted_at].status = "awaiting_approval"
            /\ ret.requires_approval
            /\ \E a \in ret.approval : approvals[a].step_id = {ret.halted_at}
            /\ \A j \in DOMAIN steps : j > ret.halted_at => steps[j].status = "pending")
    /\ [][ret'.op \in ExecutorOps /\ ret'.halted_at > 0 /\ steps' # steps =>
            /\ steps[ret'.halted_at].status = "pending"
            /\ \A j \in DOMAIN steps : j > ret'.halted_at => steps[j].status = "pending"
            /\ \A k \in NewInvocations : invoked'[k].step < ret'.halted_at
            /\ NewApprovals = {Len(approvals')}
            /\ ret'.approval = {Len(approvals')}
            /\ approvals'[Len(approvals')].step_id = {ret'.halted_at}]_vars

C4_Witness ==
    /\ ret.op = "execute_plan"
    /\ ret.halted_at = 1
    /\ Len(steps) = 2
    /\ steps[1].status = "awaiting_approval"
    /\ steps[2].status = "pending"
    /\ steps[2].action = "schedule_payment"
    /\ Len(approvals) = 1

\* C5: a tool that raises during execute_plan does not make the call raise:
\* the result has success = false and the error, exactly one AuditEntry with
\* outcome error is appended for the attempt, the step and the plan are
\* failed, and every later step stays pending and is not invoked.
C5_ExceptionContained ==
    [][(/\ NewInvocations # {}
        /\ invoked'[Len(invoked')].via = "execute_step"
        /\ invoked'[Len(invoked')].outcome = "raise") =>
          LET f == invoked'[Len(invoked')].step
          IN  /\ ret'.op \in ExecutorOps
              /\ ~ret'.raised
              /\ ~ret'.success
              /\ ret'.error = "exception"
              /\ Cardinality({k \in NewAuditEntries : audit_log'[k].step_id = {f}}) = 1
              /\ \A k \in NewAuditEntries :
                    audit_log'[k].step_id = {f} => audit_log'[k].result = "error"
              /\ steps'[f].status = "failed"
              /\ plan_status' = "failed"
              /\ \A j \in DOMAIN steps : j > f =>
                    /\ steps'[j].status = "pending"
                    /\ \A k \in NewInvocations : invoked'[k].step # j]_vars

C5_Witness ==
    /\ ret.op = "execute_plan"
    /\ ret.error = "exception"
    /\ plan_status = "failed"
    /\ Len(steps) > 1
    /\ steps[1].status = "failed"
    /\ steps[2].status = "pending"
    /\ Len(audit_log) = 1
    /\ audit_log[1].result = "error"

\* C6: every tool invocation the Executor makes appends exactly one
\* AuditEntry, whatever its outcome: the audit log has as many entries as
\* there were tool invocations.
C6_OneAuditPerInvocation ==
    Len(audit_log) = Len(invoked)

\* C7: every failed step attempt (tool-reported failure, tool exception,
\* tool not registered) returns success = false with an error and leaves an
\* audit entry for the attempt.
C7_FailureAudited ==
    (ret.op \in ExecutorOps /\ ret.error \in {"tool error", "exception", "Tool not found"}) =>
        /\ ~ret.success
        /\ audit_log # <<>>
        /\ audit_log[Len(audit_log)].result \in {"failure", "error"}

LapsedUnresolved(a) ==
    /\ now > approvals[a].expires_at
    /\ approvals[a].status \notin {"approved", "rejected"}

LiveItems(u) ==
    {a \in DOMAIN approvals :
        /\ approvals[a].user_id = u
        /\ approvals[a].status = "pending"
        /\ now <= approvals[a].expires_at}

Target(u) ==
    IF LiveItems(u) = {} THEN {}
    ELSE {CHOOSE a \in LiveItems(u) : \A b \in LiveItems(u) : b <= a}

StatusChanged == {a \in DOMAIN approvals : approvals'[a].status # approvals[a].status}

\* C11 as stated: resolve_from_message(user, text) acts only on the most
\* recently created item of that user that is still pending and unexpired;
\* every other PendingApproval is left unchanged, and at most one item changes
\* status per call.
C11_OnlyTargetChanges ==
    [][(ret'.op = "resolve_from_message" /\ now' = now) =>
          /\ \A a \in DOMAIN approvals :
                a \notin Target(ret'.user) => approvals'[a] = approvals[a]
          /\ Cardinality(StatusChanged) <= 1]_vars

\* C11 as amended: resolve_from_message(user, text) approves or rejects at
\* most one item per call, and only the most recently created item of that
\* user that is still pending and unexpired; the only other change it makes
\* is to flip to expired the items of the same user that are past expiry and
\* still marked pending; items of other users are left unchanged.
C11_OnlyTargetResolved ==
    [][(ret'.op = "resolve_from_message" /\ now' = now) =>
          /\ \A a \in DOMAIN approvals :
                \/ approvals'[a] = approvals[a]
                \/ /\ a \in Target(ret'.user)
                   /\ approvals'[a].status \in {"approved", "rejected"}
                \/ /\ approvals[a].user_id = ret'.user
                   /\ approvals[a].status = "pending"
                   /\ now > approvals[a].expires_at
                   /\ approvals'[a] = [approvals[a] EXCEPT !.status = "expired"]
          /\ ret'.item \subseteq Target(ret'.user)
          /\ pending_store' = pending_store
          /\ user_pending' = user_pending]_vars

C11_Witness ==
    /\ ret.op = "resolve_from_message"
    /\ ret.item = {2}
    /\ approvals[1].user_id = ret.user
    /\ approvals[2].user_id = ret.user
    /\ approvals[1].status = "expired"
    /\ 1 \in pending_store
    /\ approvals[2].status = "approved"

\* C12: resolve_from_message maps the reply as follows: an affirmative token
\* approves the target with selected_option = none even when it has options;
\* a negative token rejects it; a bare integer k approves it with
\* selected_option = k-1 only when the target has options and 1 <= k <= number
\* of options; any other text (an out-of-range integer and an integer when
\* there are no options included) returns no item with a help message and
\* leaves the target pending and unchanged.
C12_ReplyMapping ==
    [][(ret'.op = "resolve_from_message" /\ ret'.text # "" /\ now' = now) =>
          \A a \in Target(ret'.user) :
              LET m == StripLower(ret'.text)
                  k == IF m \in {"1", "2", "3"} THEN ToInt(m) ELSE 0
              IN  IF m \in AffirmativeTokens
                  THEN /\ ret'.item = {a}
                       /\ approvals'[a].status = "approved"
                       /\ approvals'[a].selected_option = {}
                  ELSE IF m \in NegativeTokens
                  THEN /\ ret'.item = {a}
                       /\ approvals'[a].status = "rejected"
                  ELSE IF approvals[a].n_options > 0 /\ 1 <= k /\ k <= approvals[a].n_options
                  THEN /\ ret'.item = {a}
                       /\ approvals'[a].status = "approved"
                       /\ approvals'[a].selected_option = {k - 1}
                  ELSE /\ ~ret'.raised
                       /\ ret'.item = {}
                       /\ ret'.msg # ""
                       /\ approvals'[a] = approvals[a]]_vars

\* C13: cleanup_expired flips to expired and removes from the store every
\* item whose expiry has passed and that was not approved or rejected (items
\* that an earlier read had already flipped to expired included), returns the
\* number of items it removed, and leaves every other item unchanged.
C13_SweepsAllLapsed ==
    [][(ret'.op = "cleanup_expired" /\ now' = now) =>
          LET lapsed == {a \in pending_store : LapsedUnresolved(a)}
          IN  /\ pending_store' = pending_store \ lapsed
              /\ \A a \in lapsed : approvals'[a].status = "expired"
              /\ ret'.count = Cardinality(lapsed)
              /\ \A a \in DOMAIN approvals : a \notin lapsed => approvals'[a] = approvals[a]]_vars

\* The items a step resolves (pending -> approved or rejected).
Resolved ==
    {a \in DOMAIN approvals :
        /\ approvals[a].status = "pending"
        /\ approvals'[a].status \in {"approved", "rejected"}}

\* C14: under any interleaving of concurrent turns (turns that create a
\* PendingApproval through a gated step, turns that reply), every reply that
\* resolves an item resolves the most recently created pending, unexpired
\* item of its user as of the moment it resolves, and resolves it whenever
\* there is one; one reply resolves at most one item; an item once resolved
\* is never resolved again; and a turn of one user neither changes the items
\* nor the target of another user.
C14_SerialisedPerUser ==
    /\ [][\A a \in Resolved :
            /\ ret'.op = "resolve_from_message"
            /\ approvals[a].user_id = ret'.user
            /\ a \in Target(ret'.user)
            /\ ret'.item = {a}]_vars
    /\ [][Cardinality(Resolved) <= 1]_vars
    /\ [][(Cardinality(tasks') < Cardinality(tasks) /\ ret'.op = "resolve_from_message") =>
            (Target(ret'.user) # {} => Resolved = Target(ret'.user))]_vars
    /\ [][\A a \in DOMAIN approvals :
            approvals[a].status \in {"approved", "rejected"} => approvals'[a] = approvals[a]]_vars
    /\ [][Cardinality(tasks') < Cardinality(tasks) =>
            \A u \in Users \ {ret'.user} :
                /\ \A a \in DOMAIN approvals :
                      approvals[a].user_id = u => approvals'[a] = approvals[a]
                /\ \A a \in DOMAIN approvals' :
                      approvals'[a].user_id = u => a \in DOMAIN approvals
                /\ user_pending'[u] = user_pending[u]]_vars

C14_Witness ==
    /\ Len(approvals) = 2
    /\ approvals[1].user_id = approvals[2].user_id
    /\ approvals[1].status = "pending"
    /\ approvals[2].status = "approved"
    /\ ret.op = "resolve_from_message"
    /\ ret.item = {2}
    /\ \E task \in tasks : task.kind = "reply" /\ task.user = ret.user

\* The message of the turn, as parse_intent_node normalises it.
TurnMessage == StripLower(graph.state.message)

\* The turn has left parse_intent (it is at a later node or over).
AfterParseIntent == graph.turn.trail # <<>>

\* The turn is at respond or past it.
RespondReached ==
    \/ graph.node \in {"respond", "check_proactive"}
    \/ graph.node = GraphEnd /\ graph.turn.entry # "none" /\ ~graph.turn.raised

\* C15: when a turn begins while an approval requested in an earlier turn
\* of the conversation is still pending and the message is approve-like or
\* an option number, the turn goes parse_intent -> execute_approved ->
\* respond without calling the intent classifier, and the pending action is
\* executed in that turn.
C15_ApproveReplyExecutes ==
    (graph.turn.was_pending /\ (TurnMessage \in ApproveLike \/ TurnMessage \in {"1", "2", "3"})) =>
        /\ ~graph.turn.classified
        /\ graph.node \in {"parse_intent", "execute_approved", "respond", "check_proactive", GraphEnd}
        /\ graph.node = "respond" => graph.turn.trail = <<"parse_intent", "execute_approved">>
        /\ RespondReached => graph.turn.tool_invoked

\* C16: when a reply is reject-like while an approval is pending, the turn
\* goes parse_intent -> respond with the fixed cancellation message, the
\* classifier is not called, no tool is invoked, and the pending approval is
\* discarded (the thread no longer holds a pending approval that an
\* approve-like reply could execute).
C16_RejectReplyCancels ==
    (graph.turn.was_pending /\ TurnMessage \in RejectLike) =>
        /\ ~graph.turn.classified
        /\ ~graph.turn.tools_run
        /\ graph.node \in {"parse_intent", "respond", "check_proactive", GraphEnd}
        /\ graph.node = "respond" => graph.turn.trail = <<"parse_intent">>
        /\ AfterParseIntent => graph.state.approval_status # "pending"
        /\ RespondReached =>
              graph.state.final_response = {"Understood, I've cancelled that action."}

\* The positions of the calls that name an approval-required action.
ApprovalRequiredIn(calls) == {i \in DOMAIN calls : calls[i] \in APPROVAL_REQUIRED_TOOLS}

TurnEdges ==
    {<<GraphEnd, "parse_intent">>,
     <<"parse_intent", "agent">>, <<"parse_intent", "respond">>,
     <<"parse_intent", "execute_approved">>,
     <<"agent", "execute_tools">>, <<"agent", "request_approval">>, <<"agent", "respond">>,
     <<"execute_tools", "agent">>,
     <<"request_approval", "respond">>,
     <<"execute_approved", "respond">>,
     <<"respond", "check_proactive">>,
     <<"check_proactive", GraphEnd>>}

\* C18: every turn starts in parse_intent and follows only the transitions
\* above (a run that raises ends there); hence every completed turn passes
\* through respond exactly once and check_proactive exactly once, as its last
\* two states, and final_response is set before the turn ends.
C18_TurnTransitions ==
    /\ [][graph' # graph => (<<graph.node, graph'.node>> \in TurnEdges \/ graph'.turn.raised)]_vars
    /\ [](graph.turn.responds <= 1 /\ graph.turn.proactives <= 1)
    /\ []((graph.node = GraphEnd /\ graph.turn.entry # "none" /\ ~graph.turn.raised) =>
            /\ graph.turn.trail = <<"respond", "check_proactive">>
            /\ graph.turn.responds = 1
            /\ graph.turn.proactives = 1
            /\ graph.state.final_response # {})

C18_Witness ==
    /\ graph.node = GraphEnd
    /\ graph.turn.entry = "run"
    /\ ~graph.turn.raised
    /\ graph.turn.classified
    /\ graph.turn.tool_invoked
    /\ graph.turn.trail = <<"respond", "check_proactive">>
    /\ graph.state.final_response = {"response.content"}

\* C19: every turn terminates: from any state the machine eventually
\* reaches the terminal state, even if the model keeps requesting tool calls
\* on every agent step.
C19_TurnTerminates ==
    (graph.node # GraphEnd) ~> (graph.node = GraphEnd)

\* C20: a failure of the proactive check never fails the turn and never
\* alters the reply: check_proactive always completes with a notification
\* list (empty on failure, at most 2 entries otherwise), leaves
\* final_response (and every other field of the state) unchanged, and the
\* turn then reaches the terminal state.
C20_ProactiveFailureSwallowed ==
    [][(graph.node = "check_proactive" /\ graph' # graph) =>
          /\ graph'.node = GraphEnd
          /\ ~graph'.turn.raised
          /\ graph'.turn.proactives = 1
          /\ graph'.state.proactive_notifications <= 2
          /\ graph'.turn.proactive_failed => graph'.state.proactive_notifications = 0
          /\ graph'.state =
                [graph.state EXCEPT !.proactive_notifications =
                                        graph'.state.proactive_notifications]]_vars

C20_Witness ==
    /\ graph.node = GraphEnd
    /\ graph.turn.proactive_failed
    /\ ~graph.turn.raised
    /\ graph.turn.trail = <<"respond", "check_proactive">>
    /\ graph.state.proactive_notifications = 0
    /\ graph.state.final_response # {}

\* C21: get_approval_level(action, estimated_cost) only escalates: the result
\* is never lower than the tier declared for the action (the tool default for
\* an undeclared action); a cost above cost_threshold_notify yields at least
\* confirm, a cost above cost_threshold_auto at least notify, and no cost
\* yields the declared tier unchanged.
C21_OnlyEscalates ==
    ret.op = "get_approval_level" =>
        /\ LevelIndex(ret.level) >= LevelIndex(DeclaredLevel(ret.action))
        /\ \A c \in ret.cost :
              /\ c > CostThresholdNotify => LevelIndex(ret.level) >= LevelIndex("confirm")
              /\ c > CostThresholdAuto => LevelIndex(ret.level) >= LevelIndex("notify")
        /\ ret.cost = {} => ret.level = DeclaredLevel(ret.action)

\* a step execute_step runs without asking: its tool is registered and the
\* tier resolved for it is none or notify
Ungated(step) == step.tool \in RegisteredTools /\ ~NeedsApproval(ResolveLevel(step))

\* an execute_plan call on a plan as handed over (all steps pending), all of
\* whose steps are ungated and all of whose tool invocations succeed
UngatedPlanRun ==
    /\ ret'.op = "execute_plan"
    /\ now' = now
    /\ \A j \in DOMAIN steps : steps[j].status = "pending" /\ Ungated(steps[j])
    /\ plan_status = "pending"
    /\ \A k \in NewInvocations : invoked'[k].outcome = "success"

UngatedPlanCompleted ==
    /\ Len(invoked') = Len(invoked) + Len(steps)
    /\ \A j \in DOMAIN steps :
          /\ invoked'[Len(invoked) + j].step = j
          /\ invoked'[Len(invoked) + j].via = "execute_step"
          /\ steps'[j].status = "completed"
    /\ plan_status' = "completed"
    /\ ret'.success
    /\ ~ret'.requires_approval
    /\ approvals' = approvals
    /\ pending_store' = pending_store

C23_ConversationPlanEmpty ==
    /\ [](ret.op = "create_plan" /\ ret.category = "conversation" =>
            /\ steps = <<>>
            /\ ~ret.consulted
            /\ ~ret.raised)
    /\ [][ret'.op = "execute_plan" /\ steps = <<>> =>
            /\ ret'.success
            /\ ~ret'.requires_approval
            /\ invoked' = invoked
            /\ approvals' = approvals
            /\ pending_store' = pending_store
            /\ audit_log' = audit_log]_vars

C23_Witness ==
    /\ ret.op = "execute_plan"
    /\ ret.category = "conversation"
    /\ ret.success
    /\ steps = <<>>
    /\ plan_status = "pending"
    /\ invoked = <<>>
    /\ approvals = <<>>
    /\ audit_log = <<>>

\* answers of the planning model that are not a plan: text that is not JSON,
\* and JSON without the plan shape
MalformedOutputs == {"not_json", "not_object", "steps_not_list", "no_steps"}

\* C24: when the planning model's output is malformed (not valid JSON, or
\* valid JSON without the expected plan shape), create_plan for an
\* actionable intent returns a single-step plan whose step targets the
\* default capability of the intent's category (research for an unknown
\* category) with the intent's action and parameters; it never raises and
\* never returns a failed or empty plan.
C24_MalformedOutputFallsBack ==
    (/\ ret.op = "create_plan"
     /\ ret.category # "conversation"
     /\ ret.output \in MalformedOutputs) =>
        /\ ~ret.raised
        /\ plan_status # "failed"
        /\ Len(steps) = 1
        /\ steps[1].tool = category_to_tool(ret.category)
        /\ steps[1].action = ret.action
        /\ steps[1].status = "pending"

\* the model call or the parsing of its answer failed
ReplanFailed(output) == output \in {"api_error", "not_json", "not_object", "steps_not_list"}

\* C25: replan(plan, feedback) leaves every completed step of the plan
\* unchanged (same identity, status and result, same relative order, at the
\* head of the plan) and replaces only non-completed steps with newly
\* generated pending steps; when no pending step remains, or the model call
\* or the parsing fails, the plan is returned with its steps unchanged.
C25_ReplanKeepsCompleted ==
    [][ret'.op = "replan" =>
         LET kept == SelectSeq(steps, IsCompletedStep)
         IN  /\ SelectSeq(steps', IsCompletedStep) = kept
             /\ (SelectSeq(steps, IsPendingStep) = <<>> \/ ReplanFailed(ret'.output)) =>
                    steps' = steps
             /\ steps' # steps =>
                    /\ SubSeq(steps', 1, Len(kept)) = kept
                    /\ \A j \in (Len(kept) + 1)..Len(steps') :
                          /\ steps'[j].status = "pending"
                          /\ steps'[j].id \notin StepIds(steps)
                          /\ steps'[j].id > ret.ids
                          /\ steps'[j].result = {}
                          /\ \A k \in (Len(kept) + 1)..Len(steps') :
                                steps'[k].id = steps'[j].id => k = j
             /\ plan_status' = plan_status]_vars

C25_Witness ==
    /\ ret.op = "replan"
    /\ ret.output = "plan"
    /\ Len(steps) = 3
    /\ steps[1] = StepObject(1, "completed", {"data"})
    /\ steps[2].id = 3 /\ steps[2].status = "pending" /\ steps[2].action = "schedule_payment"
    /\ steps[3].id = 4 /\ steps[3].status = "pending"

\* C26: the tier execute_step enforces is never lower than the tier the tool
\* declares for the action (none < notify < confirm < strict), the step-level
\* tier can only escalate it: an action the tool declares confirm or strict
\* is never invoked by execute_step without an approval, for any step-level
\* tier, the default none of fallback plans included.
C26_ToolTierIsFloor ==
    (ret.op = "execute_step" /\ steps[1].tool \in RegisteredTools) =>
        /\ LevelIndex(ResolveLevel(steps[1])) >= LevelIndex(DeclaredLevel(steps[1].action))
        /\ DeclaredLevel(steps[1].action) \in {"confirm", "strict"} =>
              /\ invoked = <<>>
              /\ ret.requires_approval
              /\ ret.approval # {}

\* step j was done when the invocation at position k of invoked' was made:
\* completed before the call, or invoked earlier in the call and completed
DoneBefore(j, k) ==
    /\ steps'[j].status \in {"completed", "skipped"}
    /\ \/ steps[j].status \in {"completed", "skipped"}
       \/ \E k2 \in NewInvocations : k2 < k /\ invoked'[k2].step = j

\* C27: steps of one plan execute strictly in order: across any sequence of
\* execute_plan and resume_after_approval calls, a step's tool is invoked
\* only if every step before it in the plan is completed (or skipped); no
\* step placed after a step that is awaiting_approval or failed is invoked.
C27_StrictlyInOrder ==
    [][\A k \in NewInvocations :
         \A j \in 1..(invoked'[k].step - 1) : DoneBefore(j, k)]_vars

\* C28: a failed plan is terminal: once execute_plan has marked a plan
\* failed, a later execute_plan call on it invokes no tool, creates no
\* approval, and leaves the plan status and all step statuses unchanged.
C28_FailedPlanTerminal ==
    [][ret'.op = "execute_plan" /\ plan_status = "failed" =>
         /\ invoked' = invoked
         /\ Len(approvals') = Len(approvals)
         /\ steps' = steps
         /\ plan_status' = "failed"]_vars

\* C29: no retries: over the lifetime of a plan, in any sequence of
\* execute_plan and resume_after_approval calls, each step's tool is invoked
\* at most once; a second resume_after_approval with the same approved
\* PendingApproval, or a resume repeated after the invocation failed or
\* raised, does not invoke the tool again.
C29_InvokedAtMostOnce ==
    \A k1, k2 \in DOMAIN invoked :
        invoked[k1].step = invoked[k2].step => k1 = k2

\* C30: a step is marked completed only if its tool invocation reported
\* success: a tool-reported failure and a raised exception behave
\* identically in execute_plan and in resume_after_approval, the step ends
\* failed (never completed) and the plan status ends failed.
C30_FailureMarksFailed ==
    [][\A k \in NewInvocations :
         invoked'[k].outcome # "success" =>
            /\ steps'[invoked'[k].step].status = "failed"
            /\ plan_status' = "failed"]_vars

\* how far along pending -> in_progress -> [awaiting_approval] ->
\* completed | failed a status is
StatusRank(status) ==
    CASE status = "pending" -> 0
      [] status = "in_progress" -> 1
      [] status = "awaiting_approval" -> 2
      [] OTHER -> 3

\* C31: step status only moves forward along pending -> in_progress ->
\* [awaiting_approval] -> completed | failed: once a step is completed or
\* failed, no Executor operation changes its status, result or error again,
\* and a failed step never becomes pending, in_progress or completed.
C31_StatusOnlyForward ==
    [][\A j \in DOMAIN steps :
         /\ StatusRank(steps'[j].status) >= StatusRank(steps[j].status)
         /\ steps[j].status \in {"completed", "failed"} =>
               /\ steps'[j].status = steps[j].status
               /\ steps'[j].result = steps[j].result
               /\ steps'[j].error = steps[j].error]_vars

\* C32: the plan's aggregate status mirrors its steps in every state
\* reachable through the Executor: plan.status is completed only if every
\* step is completed or skipped, plan.status is failed if and only if some
\* step is failed, and once every step is completed (including after the
\* last step was finished by resume_after_approval) plan.status is completed.
C32_PlanMirrorsSteps ==
    /\ plan_status = "completed" =>
          \A j \in DOMAIN steps : steps[j].status \in {"completed", "skipped"}
    /\ plan_status = "failed" <=> \E j \in DOMAIN steps : steps[j].status = "failed"
    /\ (steps # <<>> /\ \A j \in DOMAIN steps : steps[j].status = "completed") =>
          plan_status = "completed"

\* An item that is still marked pending although its expiry has passed.
LapsedPending(a) ==
    /\ approvals[a].status = "pending"
    /\ now > approvals[a].expires_at

\* C33: an item is never approved after its expiry: if the current time is
\* past expires_at while the item is still pending, approve(id) and
\* resolve_from_message with an affirmative or option reply leave it
\* non-approved (the item is reported expired, or the reply gets 'No pending
\* approvals') and resume_after_approval on it invokes nothing; conversely
\* an item approved or rejected before its expiry is never later reported
\* expired.
C33_NeverApprovedAfterExpiry ==
    /\ [][\A a \in DOMAIN approvals :
            /\ LapsedPending(a) => approvals'[a].status \in {"pending", "expired"}
            /\ approvals[a].status \in {"approved", "rejected"} =>
                  approvals'[a].status = approvals[a].status]_vars
    /\ [][(ret'.op = "approve" /\ now' = now) =>
            \A a \in ret'.arg : LapsedPending(a) =>
                /\ approvals'[a].status = "expired"
                /\ ret'.item = {a}
                /\ ret'.item_status = "expired"]_vars
    /\ [][(/\ ret'.op = "resolve_from_message"
           /\ now' = now
           /\ \/ StripLower(ret'.text) \in AffirmativeTokens
              \/ IsDigit(StripLower(ret'.text))) =>
            \A a \in DOMAIN approvals :
                (LapsedPending(a) /\ approvals[a].user_id = ret'.user) =>
                    /\ approvals'[a].status = "expired"
                    /\ a \notin ret'.item
                    /\ LiveItems(ret'.user) = {} =>
                          /\ ret'.item = {}
                          /\ ret'.msg = "No pending approvals"]_vars
    /\ [][(ret'.op = "resume_after_approval" /\ now' = now) =>
            \A a \in ret'.arg :
                (LapsedPending(a) \/ approvals[a].status = "expired") =>
                    /\ invoked' = invoked
                    /\ audit_log' = audit_log
                    /\ steps' = steps
                    /\ ~ret'.success]_vars

\* approve(id) on the approval of a halted step after its expiry: the item
\* comes back expired, and nothing was invoked
C33_Witness ==
    /\ ret.op = "approve"
    /\ ret.arg_status = "pending"
    /\ ret.item = ret.arg
    /\ ret.item_status = "expired"
    /\ \A a \in ret.arg : now > approvals[a].expires_at /\ approvals[a].step_id = {1}
    /\ steps[1].status = "awaiting_approval"
    /\ invoked = <<>>

\* The PendingApproval that stands for the pending_approval of the thread:
\* the dict holds the tool name, the arguments and the call id
\* (nodes.py:178-182), and no options.
ThreadApproval ==
    create_approval([steps |-> <<>>, plan_status |-> "pending", approvals |-> <<>>,
                     pending_store |-> {}, user_pending |-> NoApprovals,
                     audit_log |-> <<>>, invoked |-> <<>>],
                    PlanOwner, "finance", "schedule_payment", 0, {}, {},
                    Channel, DefaultExpiresInHours, 0)

\* What resolve_from_message answers to the reply while that approval is
\* pending.
ReplyOutcome(message) == resolve_from_message_ret(ThreadApproval, PlanOwner, message, 0)[2]

\* C34: the turn state machine accepts a reply as approve / reject /
\* option-select exactly when resolve_from_message would resolve the pending
\* approval with that reply: a digit reply is an option selection only if
\* the pending approval has options and the number is within 1..number of
\* options; any other digit reply does not lead to execute_approved.
C34_RepliesAgree ==
    [][(/\ graph.node = "parse_intent"
        /\ graph.state.approval_status = "pending"
        /\ graph.state.pending_approval # {}
        /\ graph'.node # "parse_intent") =>
          /\ graph'.node = "execute_approved" <=>
                ReplyOutcome(graph.state.message) \in {"Approved", "Selected option"}
          /\ graph'.state.approval_status = "rejected" <=>
                ReplyOutcome(graph.state.message) = "Cancelled"]_vars

\* The step of the graph in which execute_approved runs.
ExecuteApprovedRuns ==
    /\ graph.node = "execute_approved"
    /\ graph'.node # "execute_approved"

\* C35: in the turn state machine an approved action is executed at most
\* once: execute_approved makes the pending call once, then clears
\* pending_approval and resets approval_status to none whatever the outcome
\* of the call, so that a later affirmative reply does not execute it again;
\* with no pending approval recorded, execute_approved calls nothing.
C35_ExecutedAtMostOnce ==
    /\ [][ExecuteApprovedRuns =>
            /\ graph.state.approval_status = "approved"
            /\ Len(graph'.turn.dispatched) <= 1
            /\ (graph.state.pending_approval # {} /\ ~graph'.turn.raised) =>
                  /\ Len(graph'.turn.dispatched) = 1
                  /\ graph'.turn.dispatched[1].action \in graph.state.pending_approval
                  /\ graph'.state.pending_approval = {}
                  /\ graph'.state.approval_status = "none"
            /\ graph'.turn.raised => graph'.turn.dispatched = <<>>
            /\ \A outcome \in Outcomes :
                  execute_approved_calls([graph.state EXCEPT !.pending_approval = {}],
                                         outcome) = <<>>]_vars
    /\ [][(graph.node = "parse_intent" /\ graph.state.approval_status # "pending") =>
            graph'.node # "execute_approved"]_vars

\* The pending call was made after an affirmative reply and failed: the
\* thread holds no approval any more, and the turn goes on to respond
C35_Witness ==
    /\ graph.node = "respond"
    /\ graph.turn.trail = <<"parse_intent", "execute_approved">>
    /\ graph.turn.action_before # {}
    /\ TurnMessage \in ApproveLike
    /\ Len(graph.turn.dispatched) = 1
    /\ ~graph.turn.dispatched[1].success
    /\ graph.state.pending_approval = {}
    /\ graph.state.approval_status = "none"

\* The approvals created for a step.
ApprovalsOf(step) == {a \in DOMAIN approvals : approvals[a].step_id = {step.id}}

\* C36: each step in status awaiting_approval has exactly one
\* PendingApproval created for it, carrying the step's id, the plan's id,
\* the requesting user, the channel and the step's tool and action;
\* repeated execute_plan calls on a halted plan never create a second
\* approval for the same step.
C36_OneApprovalPerGatedStep ==
    /\ [](\A i \in DOMAIN steps :
            steps[i].status = "awaiting_approval" =>
                /\ Cardinality(ApprovalsOf(steps[i])) = 1
                /\ \A a \in ApprovalsOf(steps[i]) :
                      /\ approvals[a].plan_id = {PlanId}
                      /\ approvals[a].channel = Channel
                      /\ approvals[a].tool = steps[i].tool
                      /\ approvals[a].action = steps[i].action)
    /\ [][\A a \in NewApprovals :
            /\ ret'.op \in ExecutorOps
            /\ approvals'[a].user_id = ret'.user
            /\ ret'.halted_at # 0
            /\ approvals'[a].step_id = {steps[ret'.halted_at].id}
            /\ steps[ret'.halted_at].status = "pending"
            /\ steps'[ret'.halted_at].status = "awaiting_approval"
            /\ \A b \in DOMAIN approvals : approvals[b].step_id # approvals'[a].step_id]_vars

\* A second execute_plan on a plan halted at its first step: the step is
\* still awaiting approval and has the one approval of the first run
C36_Witness ==
    /\ ret.op = "execute_plan"
    /\ ret.halted_at = 0
    /\ plan_status = "completed"
    /\ steps[1].status = "awaiting_approval"
    /\ Len(steps) > 1
    /\ Cardinality(ApprovalsOf(steps[1])) = 1

\* The approval names a step of the plan that is awaiting approval.
TargetsAwaitingStep(a) ==
    \E i \in DOMAIN steps :
        /\ approvals[a].step_id = {steps[i].id}
        /\ steps[i].status = "awaiting_approval"

\* C37: an approval authorises execution only for its owner and its plan:
\* resume_after_approval(approval, plan, user) invokes a tool only if
\* approval.user_id equals user and approval.step_id identifies a step of
\* the plan that is awaiting_approval; otherwise it returns a failure and
\* invokes nothing.
C37_OwnerAndAwaitingStepOnly ==
    [][ret'.op = "resume_after_approval" =>
        \A a \in ret'.arg :
            ~(approvals[a].user_id = ret'.user /\ TargetsAwaitingStep(a)) =>
                /\ NewInvocations = {}
                /\ ~ret'.success]_vars

\* selected_option is an index into the options of the item.
ValidOption(a) ==
    \A k \in approvals[a].selected_option : 0 <= k /\ k < approvals[a].n_options

\* C38: whenever a PendingApproval has status approved and selected_option
\* is not none, selected_option is a valid index into its options
\* (0 <= selected_option < number of options), so the option lookup in
\* resume_after_approval cannot fail and resume_after_approval always
\* returns an ExecutionResult instead of raising.
C38_SelectedOptionValid ==
    /\ \A a \in DOMAIN approvals :
          (approvals[a].status = "approved" /\ approvals[a].selected_option # {}) =>
              ValidOption(a)
    /\ ret.op = "resume_after_approval" => ~ret.raised

\* The approval names a step of the plan.
TargetsPlanStep(a) == \E i \in DOMAIN steps : approvals[a].step_id = {steps[i].id}

\* C39: replan never removes a step that has an outstanding PendingApproval:
\* after replan on a plan that has a step awaiting_approval, every pending
\* approval's step_id still identifies a step of the plan, so an approve
\* reply followed by resume_after_approval finds and executes its step.
C39_ReplanKeepsAwaitedSteps ==
    /\ \A a \in DOMAIN approvals : approvals[a].status = "pending" => TargetsPlanStep(a)
    /\ (ret.op = "resume_after_approval" /\ ret.arg_status = "approved") =>
          ret.error # "Could not find pending step"

====
